---- MODULE Spec2Model ----
(***************************************************************************)
(* Model of the UNIKIE-BENCH evaluator (src/src/kie_evaluator.py and       *)
(* src/src/evaluate_results.py).                                           *)
(*                                                                         *)
(* Python values are modelled as tagged records [t |-> tag, v |-> value]:  *)
(*   "str"  : v is the string as a sequence of one-character strings       *)
(*   "int"  : v is the integer                                             *)
(*   "none" : None (v is 0 and carries nothing)                            *)
(*   "list" : v is the sequence of the elements                            *)
(*   "dict" : v is the sequence of entries [k |-> key, v |-> value] in     *)
(*            insertion order, keys distinct; a key is a character         *)
(*            sequence                                                     *)
(*                                                                         *)
(* Numbers: counters are integers. An F1 score is held as the exact        *)
(* fraction num / den that the float expression denotes (1e-6 is           *)
(* 1 / Micro); the sum and the mean of scores are exact fractions of       *)
(* natural numbers in base 1000.                                           *)
(*                                                                         *)
(* Three specifications share the variables, each leaving the variables    *)
(* of the others at their idle values:                                     *)
(*   SpecTree  : normalize_dict, then flatten, of one value tree           *)
(*   SpecScore : cal_f1_all, one document of answers per step              *)
(*   Spec      : evaluate_results.main, from the prediction file to the    *)
(*               report                                                    *)
(*   SpecLoad  : evaluate_results.load_predictions alone                   *)
(*   SpecText  : evaluate_results.normalize_func, applied to a string and  *)
(*               to its own results                                        *)
(*   SpecEval  : evaluate_results.evaluate_dataset on one document         *)
(*   SpecProducer : request_openai.main_async, the tasks of process_one    *)
(*               and the loop that writes their records                    *)
(***************************************************************************)
EXTENDS Integers, Sequences, FiniteSets, TLC

VARIABLES
    data,       \* tree harness: the value tree handed to normalize_dict
    canon,      \* tree harness: normalize_dict(data), once computed
    flat,       \* tree harness: flatten(canon), once computed
    tpc,        \* tree harness: "raw" | "normalized" | "flattened" | "off"
    preds,      \* cal_f1_all: its argument preds, a dict file_name -> tree
    answers,    \* cal_f1_all: its argument answers, a dict file_name -> tree
    doc_i,      \* cal_f1_all: the number of entries of answers the loop has done
    cal,        \* cal_f1_all: its local variables, and its result once returned
    cpc,        \* cal_f1_all: "loop" | "returned" | "off"
    lines,      \* main: the lines of the prediction file
    line_i,     \* main: the number of lines load_predictions has read
    labels,     \* main: the label files on disk, a dict dataset -> labels
    arg_dataset,      \* main: args.dataset, None when not given
    all_predictions,  \* main: a dict dataset -> (dict image_name -> tree)
    datasets_to_eval, \* main: the list of dataset names
    eval_i,     \* main: the number of datasets the evaluation loop has done
    all_results,      \* main: a dict dataset -> eval_result
    report,     \* main: what was written to the output file, <<>> if nothing
    mpc,        \* main: "load" | "loaded" | "eval" | "done" | "aborted" | "off"
    input_text, \* normalize_func: the string handed to it first
    normalized, \* normalize_func: its result, and its results on its results
    ev_preds,   \* evaluate_dataset: its argument predictions
    ev_gts,     \* evaluate_dataset: its argument ground_truth
    ev_norm_preds,    \* evaluate_dataset: normalized_preds
    ev_norm_gts,      \* evaluate_dataset: normalized_gts
    ev_result,  \* evaluate_dataset: eval_result, None until it is built
    epc,        \* evaluate_dataset: "start" | "normalized" | "returned" | "off"
    samples,    \* main_async: the samples, a sample held as its url
    concurrency,      \* main_async: the value the semaphore starts with
    MAX_RETRIES,      \* request_openai: the global main sets from --max-retries
    sem,        \* main_async: the value of the semaphore
    tasks,      \* main_async: the state of the task of process_one of each sample
    completed,  \* main_async: the samples whose task is done, in order of completion
    fh,         \* main_async: the lines of the output file
    ok,         \* main_async: the number of records written without error
    fail,       \* main_async: the number of records written with error
    wpc         \* main_async: "running" | "closed" | "off"

treeVars == <<data, canon, flat, tpc>>
calVars == <<preds, answers, doc_i, cal, cpc>>
mainVars == <<lines, line_i, labels, arg_dataset, all_predictions, datasets_to_eval,
              eval_i, all_results, report, mpc>>
textVars == <<input_text, normalized>>
evalVars == <<ev_preds, ev_gts, ev_norm_preds, ev_norm_gts, ev_result, epc>>
prodVars == <<samples, concurrency, MAX_RETRIES, sem, tasks, completed, fh, ok, fail, wpc>>
vars == <<treeVars, calVars, mainVars, textVars, evalVars, prodVars>>

----------------------------------------------------------------------------
(* Bounds of the checked input sets *)

\* the prediction file has at most this many lines
MaxLines == 2

\* a value tree of the tree harness has at most this many nodes
MaxNodes == 4

\* the trees handed to cal_f1_all hold at most this many scalars in all
MaxLeaves == 3
MaxPieces == 3
MaxNest == 2
MaxSamples == 2
MaxConcurrency == 2
MaxRetries == 2
Passes == 2

----------------------------------------------------------------------------
(* Python values *)

S(chars) == [t |-> "str", v |-> chars]
I(n) == [t |-> "int", v |-> n]
None == [t |-> "none", v |-> 0]
L(items) == [t |-> "list", v |-> items]
D(entries) == [t |-> "dict", v |-> entries]
E(key, value) == [k |-> key, v |-> value]

EmptyDict == D(<<>>)

\* the value of a key that a JSON object does not have
Absent == [t |-> "absent", v |-> 0]

\* A character is a one-character string; the backquote and the characters
\* outside ASCII are written as the string "U" and the code point in hexadecimal. CodePoints lists the
\* characters of the model with their code points (ord and chr).
CodePoints ==
    <<(<<"\t", 9>>), (<<"\n", 10>>), (<<" ", 32>>), (<<"'", 39>>), (<<",", 44>>),
      (<<"-", 45>>), (<<".", 46>>), (<<"/", 47>>), (<<"0", 48>>), (<<"1", 49>>),
      (<<"2", 50>>), (<<"3", 51>>), (<<"4", 52>>), (<<"5", 53>>), (<<"6", 54>>),
      (<<"7", 55>>), (<<"8", 56>>), (<<"9", 57>>), (<<"A", 65>>), (<<"C", 67>>),
      (<<"B", 66>>), (<<"N", 78>>), (<<"_", 95>>), (<<"U0060", 96>>), (<<"a", 97>>), (<<"b", 98>>),
      (<<"c", 99>>), (<<"d", 100>>), (<<"e", 101>>), (<<"g", 103>>), (<<"i", 105>>),
      (<<"j", 106>>), (<<"k", 107>>), (<<"m", 109>>), (<<"n", 110>>), (<<"o", 111>>),
      (<<"p", 112>>), (<<"r", 114>>), (<<"s", 115>>), (<<"t", 116>>), (<<"u", 117>>), (<<"w", 119>>),
      (<<"x", 120>>), (<<"y", 121>>),
      (<<"U00A5", 165>>), (<<"U00B0", 176>>), (<<"U2013", 8211>>), (<<"U2014", 8212>>),
      (<<"U2019", 8217>>), (<<"U2103", 8451>>), (<<"U3000", 12288>>),
      (<<"U3001", 12289>>), (<<"U3002", 12290>>), (<<"UFF0D", 65293>>),
      (<<"UFF0E", 65294>>), (<<"UFF21", 65313>>), (<<"UFF40", 65344>>),
      (<<"UFFE5", 65509>>)>>

\* ord(c)
Ord(c) == CodePoints[CHOOSE i \in 1..Len(CodePoints) : CodePoints[i][1] = c][2]

\* chr(code_point)
Chr(code_point) ==
    CodePoints[CHOOSE i \in 1..Len(CodePoints) : CodePoints[i][2] = code_point][1]

\* the characters str.strip() strips and \s matches
WhiteSpace == {" ", "\t", "\n", "U3000"}

DigitChar == <<"0", "1", "2", "3", "4", "5", "6", "7", "8", "9">>

RECURSIVE Digits(_)
Digits(n) ==
    IF n < 10 THEN <<DigitChar[n + 1]>>
    ELSE Digits(n \div 10) \o <<DigitChar[(n % 10) + 1]>>

\* str(item) of a scalar
PyStr(item) ==
    CASE item.t = "str" -> item.v
      [] item.t = "int" ->
            IF item.v < 0 THEN <<"-">> \o Digits(0 - item.v) ELSE Digits(item.v)
      [] item.t = "none" -> <<"N", "o", "n", "e">>

RECURSIVE lstrip(_)
lstrip(s) ==
    IF s # <<>> /\ Head(s) \in WhiteSpace THEN lstrip(Tail(s)) ELSE s

RECURSIVE rstrip(_)
rstrip(s) ==
    IF s # <<>> /\ s[Len(s)] \in WhiteSpace
    THEN rstrip(SubSeq(s, 1, Len(s) - 1))
    ELSE s

strip(s) == rstrip(lstrip(s))

\* k1 < k2 as Python strings (code point order, a proper prefix first)
RECURSIVE StrLess(_, _)
StrLess(k1, k2) ==
    IF k2 = <<>> THEN FALSE
    ELSE IF k1 = <<>> THEN TRUE
    ELSE IF Head(k1) = Head(k2) THEN StrLess(Tail(k1), Tail(k2))
    ELSE Ord(Head(k1)) < Ord(Head(k2))

\* the sort key of normalize_dict: (len(k), k)
KeyLess(k1, k2) ==
    \/ Len(k1) < Len(k2)
    \/ Len(k1) = Len(k2) /\ StrLess(k1, k2)

RECURSIVE InsertKey(_, _)
InsertKey(sorted, key) ==
    IF sorted = <<>> THEN <<key>>
    ELSE IF KeyLess(key, Head(sorted)) THEN <<key>> \o sorted
    ELSE <<Head(sorted)>> \o InsertKey(Tail(sorted), key)

\* data.keys() as they are: the keys in the order of their insertion
KeysAsInserted(entries) == [i \in 1..Len(entries) |-> entries[i].k]

\* sorted(data.keys(), key=lambda k: (len(k), k))
RECURSIVE SortedKeys(_)
SortedKeys(entries) ==
    IF entries = <<>> THEN <<>>
    ELSE InsertKey(SortedKeys(SubSeq(entries, 1, Len(entries) - 1)),
                   entries[Len(entries)].k)

HasKey(d, key) == \E i \in 1..Len(d.v) : d.v[i].k = key

\* d[key], for a key of d
DictGet(d, key) == d.v[CHOOSE i \in 1..Len(d.v) : d.v[i].k = key].v

\* a get that falls back on the first entry of d before the default
DictGetOrFirst(d, key, default) ==
    IF HasKey(d, key) THEN DictGet(d, key)
    ELSE IF Len(d.v) > 0 THEN d.v[1].v ELSE default

\* a get that never finds the key
DictGetDefault(d, key, default) == default

\* d.get(key, default)
DictGetOr(d, key, default) == IF HasKey(d, key) THEN DictGet(d, key) ELSE default

\* d.setdefault(key, value): the value of a key that d has is kept
DictSetDefault(d, key, value) ==
    IF HasKey(d, key) THEN d ELSE D(Append(d.v, E(key, value)))

\* d[key] = value
DictSet(d, key, value) ==
    IF HasKey(d, key)
    THEN D([i \in 1..Len(d.v) |-> IF d.v[i].k = key THEN E(key, value) ELSE d.v[i]])
    ELSE D(Append(d.v, E(key, value)))

\* truth value of a dict or a list: non-empty
Truthy(value) == Len(value.v) > 0

----------------------------------------------------------------------------
(* kie_evaluator.normalize_dict *)

RECURSIVE normalize_dict(_)
RECURSIVE NormalizeKeys(_, _)
RECURSIVE NormalizeItems(_)
RECURSIVE NormalizeScalars(_)

\* a loop over the keys that stores a map as it is, not in a list
NormalizeKeysUnwrapped(d, keys) ==
    IF keys = <<>> THEN <<>>
    ELSE LET key == Head(keys)
             value == normalize_dict(DictGet(d, key))
             rest == NormalizeKeys(d, Tail(keys))
         IN  IF Truthy(value) THEN <<E(key, value)>> \o rest ELSE rest

\* the loop over the sorted keys of a dict (lines 52-57)
NormalizeKeys(d, keys) ==
    IF keys = <<>> THEN <<>>
    ELSE LET key == Head(keys)
             value == normalize_dict(DictGet(d, key))
             rest == NormalizeKeys(d, Tail(keys))
         IN  IF Truthy(value)
             THEN <<E(key, IF value.t # "list" THEN L(<<value>>) ELSE value)>> \o rest
             ELSE rest

\* NormalizeItems that ends its loop at the first item that normalizes to empty
NormalizeItemsBreak(items) ==
    IF items = <<>> THEN <<>>
    ELSE LET item == normalize_dict(Head(items))
         IN  IF Truthy(item) THEN <<item>> \o NormalizeItems(Tail(items)) ELSE <<>>

\* the loop over a list whose items are all dicts (lines 61-65)
NormalizeItems(items) ==
    IF items = <<>> THEN <<>>
    ELSE LET item == normalize_dict(Head(items))
             rest == NormalizeItems(Tail(items))
         IN  IF Truthy(item) THEN <<item>> \o rest ELSE rest

\* a scalar-list branch that keeps the maps of a mixed list
RECURSIVE NormalizeScalarsAndMaps(_)
NormalizeScalarsAndMaps(items) ==
    IF items = <<>> THEN <<>>
    ELSE LET item == Head(items)
             rest == NormalizeScalarsAndMaps(Tail(items))
         IN  IF item.t = "dict" THEN <<item>> \o rest
             ELSE IF item.t \in {"str", "int"} /\ strip(PyStr(item)) # <<>>
             THEN <<S(strip(PyStr(item)))>> \o rest
             ELSE rest

\* the comprehension over any other list (line 67)
NormalizeScalars(items) ==
    IF items = <<>> THEN <<>>
    ELSE LET item == Head(items)
             rest == NormalizeScalars(Tail(items))
         IN  IF item.t \in {"str", "int"} /\ strip(PyStr(item)) # <<>>
             THEN <<S(strip(PyStr(item)))>> \o rest
             ELSE rest

normalize_dict(d) ==
    IF d.t = "dict" THEN D(NormalizeKeys(d, SortedKeys(d.v)))
    ELSE IF d.t = "list" THEN
        IF \A i \in 1..Len(d.v) : d.v[i].t = "dict"
        THEN L(NormalizeItems(d.v))
        ELSE L(NormalizeScalars(d.v))
    ELSE L(<<S(strip(PyStr(d)))>>)

----------------------------------------------------------------------------
(* kie_evaluator.flatten: the list of (key, value) pairs, a pair as <<key, value>> *)

RECURSIVE flatten_rec(_, _)
RECURSIVE FlattenEntries(_, _)
RECURSIVE FlattenItems(_, _)

\* a path that keeps an empty parent: f"{key}.{child_key}"
JoinPathAlways(key, child_key) == key \o <<".">> \o child_key

\* f"{key}.{child_key}" if key else child_key
JoinPath(key, child_key) ==
    IF key # <<>> THEN key \o <<".">> \o child_key ELSE child_key

\* a walk over a list that adds the place in the list to the path
RECURSIVE FlattenItemsIndexed(_, _)
FlattenItemsIndexed(items, key) ==
    IF items = <<>> THEN <<>>
    ELSE flatten_rec(Head(items), JoinPath(key, Digits(Len(items))))
         \o FlattenItemsIndexed(Tail(items), key)

FlattenEntries(entries, key) ==
    IF entries = <<>> THEN <<>>
    ELSE flatten_rec(Head(entries).v, JoinPath(key, Head(entries).k))
         \o FlattenEntries(Tail(entries), key)

FlattenItems(items, key) ==
    IF items = <<>> THEN <<>>
    ELSE flatten_rec(Head(items), key) \o FlattenItems(Tail(items), key)

\* _flatten(value, key)
flatten_rec(value, key) ==
    IF value.t = "dict" THEN FlattenEntries(value.v, key)
    ELSE IF value.t = "list" THEN FlattenItems(value.v, key)
    ELSE <<<<key, value>>>>

flatten(d) == flatten_rec(d, <<>>)

----------------------------------------------------------------------------
(* kie_evaluator.cal_f1_all *)

\* field in answer
Contains(seq, x) == \E i \in 1..Len(seq) : seq[i] = x

\* a remove that takes every occurrence of x out of seq
RECURSIVE RemoveEvery(_, _)
RemoveEvery(seq, x) ==
    IF seq = <<>> THEN <<>>
    ELSE IF Head(seq) = x THEN RemoveEvery(Tail(seq), x)
    ELSE <<Head(seq)>> \o RemoveEvery(Tail(seq), x)

\* a remove that leaves seq as it is
RemoveNothing(seq, x) == seq

\* answer.remove(field): the list without the first occurrence of field
RECURSIVE RemoveFirst(_, _)
RemoveFirst(seq, x) ==
    IF seq = <<>> THEN <<>>
    ELSE IF Head(seq) = x THEN Tail(seq)
    ELSE <<Head(seq)>> \o RemoveFirst(Tail(seq), x)

\* metric_info is a dict field_name -> counters, held as the sequence of its
\* entries [k, total_tp, total_fn_or_fp] in insertion order
HasMetric(metric_info, field_name) ==
    \E i \in 1..Len(metric_info) : metric_info[i].k = field_name

\* a metric_info that gets no entry for a new field_name
MetricTouchNothing(metric_info, field_name) == metric_info

\* if field_name not in metric_info: metric_info[field_name] = {0, 0}
MetricTouch(metric_info, field_name) ==
    IF HasMetric(metric_info, field_name) THEN metric_info
    ELSE Append(metric_info, [k |-> field_name, total_tp |-> 0, total_fn_or_fp |-> 0])

\* metric_info[field_name]["total_tp"] += 1
MetricAddTp(metric_info, field_name) ==
    [i \in 1..Len(metric_info) |->
        IF metric_info[i].k = field_name
        THEN [metric_info[i] EXCEPT !.total_tp = @ + 1]
        ELSE metric_info[i]]

\* an increment that lands on total_tp in place of total_fn_or_fp
MetricAddToTp(metric_info, field_name) ==
    [i \in 1..Len(metric_info) |->
        IF metric_info[i].k = field_name
        THEN [metric_info[i] EXCEPT !.total_tp = @ + 1]
        ELSE metric_info[i]]

\* metric_info[field_name]["total_fn_or_fp"] += 1
MetricAddFnOrFp(metric_info, field_name) ==
    [i \in 1..Len(metric_info) |->
        IF metric_info[i].k = field_name
        THEN [metric_info[i] EXCEPT !.total_fn_or_fp = @ + 1]
        ELSE metric_info[i]]

\* the loop over the fields of pred (lines 84-96); st holds the variables it
\* updates: answer, total_tp, total_fn_or_fp, metric_info, tp, fp
RECURSIVE MatchFields(_, _)
MatchFields(pred, st) ==
    IF pred = <<>> THEN st
    ELSE LET field == Head(pred)
             field_name == field[1]
             touched == MetricTouch(st.metric_info, field_name)
         IN  MatchFields(Tail(pred),
                IF Contains(st.answer, field)
                THEN [st EXCEPT !.total_tp = @ + 1,
                                !.metric_info = MetricAddTp(touched, field_name),
                                !.tp = Append(@, field),
                                !.answer = RemoveFirst(@, field)]
                ELSE [st EXCEPT !.total_fn_or_fp = @ + 1,
                                !.metric_info = MetricAddFnOrFp(touched, field_name),
                                !.fp = Append(@, field)])

\* the loop over what is left of answer (lines 99-104)
RECURSIVE CountMissing(_, _)
CountMissing(answer, metric_info) ==
    IF answer = <<>> THEN metric_info
    ELSE CountMissing(Tail(answer),
            MetricAddFnOrFp(MetricTouch(metric_info, Head(answer)[1]), Head(answer)[1]))

CounterPrefix == <<"c", "o", "u", "n", "t", "e", "r", "_">>

\* a Counter that counts every name once
RECURSIVE CounterOnce(_)
CounterOnce(names) ==
    IF names = <<>> THEN <<>>
    ELSE LET before == CounterOnce(SubSeq(names, 1, Len(names) - 1))
             name == names[Len(names)]
         IN  IF \E i \in 1..Len(before) : before[i].k = name THEN before
             ELSE Append(before, [k |-> name, n |-> 1])

\* Counter(names) as a dict name -> count in order of first occurrence,
\* held as the sequence of its entries [k, n]
RECURSIVE Counter(_)
Counter(names) ==
    IF names = <<>> THEN <<>>
    ELSE LET before == Counter(SubSeq(names, 1, Len(names) - 1))
             name == names[Len(names)]
         IN  IF \E i \in 1..Len(before) : before[i].k = name
             THEN [i \in 1..Len(before) |->
                     IF before[i].k = name THEN [before[i] EXCEPT !.n = @ + 1]
                     ELSE before[i]]
             ELSE Append(before, [k |-> name, n |-> 1])

\* ["counter_" + x[0] for x in fields]
ErrorClassList(fields) ==
    [i \in 1..Len(fields) |-> CounterPrefix \o fields[i][1]]

\* the file names of the documents
DocNames == <<(<<"d", "1">>), (<<"d", "2">>)>>

\* the variables of cal_f1_all as it enters its loop (lines 78-79)
CalStart ==
    [total_tp |-> 0, total_fn_or_fp |-> 0, metric_info |-> <<>>, error_info |-> <<>>,
     sample_error_info |-> [fp |-> <<>>, fn |-> <<>>, tp |-> <<>>],
     f1 |-> [num |-> 0, den |-> 1]]

\* an error_info that gets the record of every document
RecordAlways(errors, record) == Append(errors, record)

\* error_info[file_name] = sample_error_info, if the sample has errors
\* (lines 106-112)
RecordErrors(errors, record) ==
    IF record.error_num > 0 THEN Append(errors, record) ELSE errors

\* one iteration of the loop over answers.items() (lines 80-112)
ScoreDocOp(st, the_preds, file_name, answer_tree) ==
    LET pred == flatten(normalize_dict(DictGetOr(the_preds, file_name, EmptyDict)))
        answer == flatten(normalize_dict(answer_tree))
        m == MatchFields(pred,
                [answer |-> answer, total_tp |-> st.total_tp,
                 total_fn_or_fp |-> st.total_fn_or_fp, metric_info |-> st.metric_info,
                 tp |-> <<>>, fp |-> <<>>])
        sample == [fp |-> m.fp, fn |-> m.answer, tp |-> m.tp]
        sample_error_num == Len(sample.fp) + Len(sample.fn)
        record == [k |-> file_name, fp |-> sample.fp, fn |-> sample.fn, tp |-> sample.tp,
                   error_num |-> sample_error_num,
                   error_info |-> Counter(ErrorClassList(sample.fn \o sample.fp))]
    IN  [st EXCEPT !.total_tp = m.total_tp,
                   !.total_fn_or_fp = m.total_fn_or_fp + Len(m.answer),
                   !.metric_info = CountMissing(m.answer, m.metric_info),
                   !.sample_error_info = sample,
                   !.error_info = RecordErrors(@, record)]

\* 1e-6 is 1 / Micro
Micro == 1000000

\* the formula with 1e-6 added to the numerator too
F1OfSmoothedNum(tp, fn_or_fp) ==
    [num |-> 2 * Micro * tp + 2, den |-> 2 * Micro * tp + Micro * fn_or_fp + 2]

\* the formula without 1e-6
F1OfNoEps(tp, fn_or_fp) ==
    [num |-> 2 * Micro * tp, den |-> 2 * Micro * tp + Micro * fn_or_fp]

\* tp / (tp + fn_or_fp / 2 + 1e-6) as the exact fraction num / den
F1Of(tp, fn_or_fp) ==
    [num |-> 2 * Micro * tp, den |-> 2 * Micro * tp + Micro * fn_or_fp + 2]

\* seq with x put after the last item whose rank is at least the rank of x
RECURSIVE InsertDesc(_, _)
InsertDesc(sorted, x) ==
    IF sorted = <<>> THEN <<x>>
    ELSE IF Head(sorted).rank >= x.rank THEN <<Head(sorted)>> \o InsertDesc(Tail(sorted), x)
    ELSE <<x>> \o sorted

\* sorted(items, key=rank, reverse=True) of [rank, item] pairs: stable
RECURSIVE SortedDesc(_)
SortedDesc(ranked) ==
    IF ranked = <<>> THEN <<>>
    ELSE InsertDesc(SortedDesc(SubSeq(ranked, 1, Len(ranked) - 1)), ranked[Len(ranked)])

Items(ranked) == [i \in 1..Len(ranked) |-> ranked[i].item]

\* the summary and the return (lines 114-125)
SummarizeOp(st) ==
    LET with_acc == [i \in 1..Len(st.metric_info) |->
                        [k |-> st.metric_info[i].k,
                         total_tp |-> st.metric_info[i].total_tp,
                         total_fn_or_fp |-> st.metric_info[i].total_fn_or_fp,
                         acc |-> F1Of(st.metric_info[i].total_tp,
                                      st.metric_info[i].total_fn_or_fp)]]
    IN  [st EXCEPT
            !.metric_info = Items(SortedDesc(
                [i \in 1..Len(with_acc) |->
                    [rank |-> with_acc[i].total_fn_or_fp, item |-> with_acc[i]]])),
            !.error_info = Items(SortedDesc(
                [i \in 1..Len(st.error_info) |->
                    [rank |-> st.error_info[i].error_num, item |-> st.error_info[i]]])),
            !.f1 = F1Of(st.total_tp, st.total_fn_or_fp)]

\* the loop of cal_f1_all over the entries of answers from entry i on
RECURSIVE ScoreFrom(_, _, _, _)
ScoreFrom(st, the_preds, the_answers, i) ==
    IF i > Len(the_answers.v) THEN st
    ELSE ScoreFrom(ScoreDocOp(st, the_preds, the_answers.v[i].k, the_answers.v[i].v),
                   the_preds, the_answers, i + 1)

\* cal_f1_all(preds, answers): f1, metric_info and error_info of the result
cal_f1_all(the_preds, the_answers) ==
    SummarizeOp(ScoreFrom(CalStart, the_preds, the_answers, 1))

----------------------------------------------------------------------------
(* kie_evaluator.fullwidth_to_halfwidth, remove_unnecessary_spaces,        *)
(* normalize_values_of_nested_dict and evaluate_results.normalize_func     *)

\* what the loop of fullwidth_to_halfwidth adds to result for one char
HalfWidthChar(char) ==
    LET code_point == Ord(char)
    IN  IF code_point = 12288 THEN <<Chr(32)>>
        ELSE IF code_point = 65509 THEN <<Chr(165)>>
        ELSE IF code_point = 8212 THEN <<Chr(45)>>
        ELSE IF code_point = 8451 THEN <<Chr(176), "C">>
        ELSE IF 65281 <= code_point /\ code_point <= 65374 THEN <<Chr(code_point - 65248)>>
        ELSE <<Chr(code_point)>>

RECURSIVE HalfWidthChars(_)
HalfWidthChars(text) ==
    IF text = <<>> THEN <<>>
    ELSE HalfWidthChar(Head(text)) \o HalfWidthChars(Tail(text))

\* text.replace(old, new) for a single character old
RECURSIVE Replace(_, _, _)
Replace(text, old, new) ==
    IF text = <<>> THEN <<>>
    ELSE (IF Head(text) = old THEN new ELSE <<Head(text)>>) \o Replace(Tail(text), old, new)

\* text.rstrip(chars)
RECURSIVE RStripChars(_, _)
RStripChars(text, chars) ==
    IF text # <<>> /\ text[Len(text)] \in chars
    THEN RStripChars(SubSeq(text, 1, Len(text) - 1), chars)
    ELSE text

fullwidth_to_halfwidth(text) ==
    RStripChars(
        Replace(Replace(Replace(Replace(HalfWidthChars(text),
            "U3001", <<",">>), "-", <<>>), "U2013", <<>>), "U2019", <<"'">>),
        {"U3002", "."})

Fence == <<"U0060", "U0060", "U0060">>

JsonFence == Fence \o <<"j", "s", "o", "n">>

\* the least index from start on at which pat occurs in text, 0 if there is none
IndexOf(text, pat, start) ==
    LET hits == {i \in start..(Len(text) - Len(pat) + 1) :
                    SubSeq(text, i, i + Len(pat) - 1) = pat}
    IN  IF hits = {} THEN 0 ELSE CHOOSE i \in hits : \A j \in hits : i <= j

\* re.search(opener \s*(.*?)\s* ```, text, re.DOTALL): <<group(1)>>, or <<>>
\* when there is no match. The match starts at the first opener; \s* takes
\* the whitespace after it and group(1) ends where the whitespace before the
\* first later fence begins.
FenceSearch(text, opener) ==
    LET body == IndexOf(text, opener, 1) + Len(opener)
        close == IndexOf(text, Fence, body)
        first == CHOOSE i \in body..close :
                    /\ \A j \in body..(i - 1) : text[j] \in WhiteSpace
                    /\ text[i] \notin WhiteSpace
        last == CHOOSE i \in (first - 1)..(close - 1) :
                    /\ \A j \in (i + 1)..(close - 1) : text[j] \in WhiteSpace
                    /\ (i >= first => text[i] \notin WhiteSpace)
    IN  IF close = 0 THEN <<>> ELSE <<SubSeq(text, first, last)>>

\* re.sub(r'\s+', '', text)
DropSpaces(text) == SelectSeq(text, LAMBDA c : c \notin WhiteSpace)

remove_unnecessary_spaces(text) ==
    DropSpaces(
        IF IndexOf(text, JsonFence, 1) # 0 THEN
            (IF FenceSearch(text, JsonFence) # <<>>
             THEN strip(FenceSearch(text, JsonFence)[1]) ELSE text)
        ELSE IF IndexOf(text, Fence, 1) # 0 THEN
            (IF FenceSearch(text, Fence) # <<>>
             THEN strip(FenceSearch(text, Fence)[1]) ELSE text)
        ELSE text)

\* evaluate_results.normalize_func, on the characters of str(text)
normalize_func(text) == remove_unnecessary_spaces(fullwidth_to_halfwidth(text))

RECURSIVE normalize_values_of_nested_dict(_)
normalize_values_of_nested_dict(d) ==
    IF d.t = "dict" THEN
        D([i \in 1..Len(d.v) |-> E(d.v[i].k, normalize_values_of_nested_dict(d.v[i].v))])
    ELSE IF d.t = "list" THEN
        L([i \in 1..Len(d.v) |->
            IF d.v[i].t = "dict" THEN normalize_values_of_nested_dict(d.v[i])
            ELSE IF d.v[i].t = "str" THEN S(normalize_func(d.v[i].v))
            ELSE d.v[i]])
    ELSE IF d.t = "str" THEN S(normalize_func(d.v))
    ELSE d

----------------------------------------------------------------------------
(* The value trees of the tree harness: every tree of at most MaxNodes     *)
(* nodes over these scalars and keys, and the trees of DottedTrees.        *)

TreeScalars == {S(<<" ">>), S(<<"x">>), I(7), None}

\* "b" sorts before "aa" by (len, key) and after it by key alone
TreeKeys == {<<"b">>, <<"a", "a">>}

Min(a, b) == IF a < b THEN a ELSE b

\* the sequences of j distinct keys
RECURSIVE KeySeqs(_)
KeySeqs(j) ==
    IF j = 0 THEN {<<>>}
    ELSE {s \in {Append(ks, k) : ks \in KeySeqs(j - 1), k \in TreeKeys} :
             \A i \in 1..(j - 1) : s[i] # s[j]}

\* the sequences of j trees with m nodes in all, tab[a] being the trees of a nodes
RECURSIVE ForestsOfSize(_, _, _)
ForestsOfSize(tab, m, j) ==
    IF j = 0 THEN (IF m = 0 THEN {<<>>} ELSE {})
    ELSE UNION {{<<tr>> \o f : tr \in tab[a], f \in ForestsOfSize(tab, m - a, j - 1)}
                : a \in 1..(m - j + 1)}

\* the entries that give the keys ks, in order, the values f
RECURSIVE ZipEntries(_, _)
ZipEntries(ks, f) ==
    IF f = <<>> THEN <<>>
    ELSE <<E(Head(ks), Head(f))>> \o ZipEntries(Tail(ks), Tail(f))

\* the trees of n nodes, n > 1: a list or a dict over n - 1 nodes of children
TreesOfSize(tab, n) ==
    UNION {{L(f) : f \in ForestsOfSize(tab, n - 1, j)} : j \in 1..(n - 1)}
    \cup
    UNION {{D(ZipEntries(ks, f)) :
               ks \in KeySeqs(j), f \in ForestsOfSize(tab, n - 1, j)}
           : j \in 1..Min(n - 1, Cardinality(TreeKeys))}

\* <<the trees of 1 node, ..., the trees of n nodes>>
RECURSIVE TreeTable(_)
TreeTable(n) ==
    IF n = 1 THEN <<TreeScalars \cup {L(<<>>), D(<<>>)}>>
    ELSE LET tab == TreeTable(n - 1) IN Append(tab, TreesOfSize(tab, n))

\* the trees of fewer than MaxNodes nodes, by size: the children of a root
TreeTab == TreeTable(MaxNodes - 1)

\* the trees with one leaf whose keys hold a dot or are empty: the leaf at
\* the keys "a" then "b", at the one key "a.b", and at the key "" then "a.b"
DottedTrees ==
    UNION {{D(<<E(<<"a">>, D(<<E(<<"b">>, leaf)>>))>>),
            D(<<E(<<"a", ".", "b">>, leaf)>>),
            D(<<E(<<>>, D(<<E(<<"a", ".", "b">>, leaf)>>))>>)} : leaf \in TreeScalars}

\* data is a tree of at most MaxNodes nodes
IsInputTree(tree) ==
    \/ tree \in TreeTab[1]
    \/ \E m \in 1..(MaxNodes - 1), j \in 1..(MaxNodes - 1) :
         \E a \in 1..(m - j + 1) :
           \E rest \in ForestsOfSize(TreeTab, m - a, j - 1) :
             \E first \in TreeTab[a] :
               \/ tree = L(<<first>> \o rest)
               \/ /\ j <= Cardinality(TreeKeys)
                  /\ \E ks \in KeySeqs(j) : tree = D(ZipEntries(ks, <<first>> \o rest))

----------------------------------------------------------------------------
(* Tree harness: normalize_dict and flatten applied as cal_f1_all applies  *)
(* them (line 83) to one value tree.                                       *)

NoTree == None

MainOff ==
    /\ lines = <<>>
    /\ line_i = 0
    /\ labels = EmptyDict
    /\ arg_dataset = None
    /\ all_predictions = EmptyDict
    /\ datasets_to_eval = <<>>
    /\ eval_i = 0
    /\ all_results = EmptyDict
    /\ report = <<>>
    /\ mpc = "off"

CalOff ==
    /\ preds = EmptyDict
    /\ answers = EmptyDict
    /\ doc_i = 0
    /\ cal = CalStart
    /\ cpc = "off"

TextOff ==
    /\ input_text = <<>>
    /\ normalized = <<>>

ProdOff ==
    /\ samples = <<>>
    /\ concurrency = 0
    /\ MAX_RETRIES = 0
    /\ sem = 0
    /\ tasks = <<>>
    /\ completed = <<>>
    /\ fh = <<>>
    /\ ok = 0
    /\ fail = 0
    /\ wpc = "off"

EvalOff ==
    /\ ev_preds = EmptyDict
    /\ ev_gts = EmptyDict
    /\ ev_norm_preds = EmptyDict
    /\ ev_norm_gts = EmptyDict
    /\ ev_result = None
    /\ epc = "off"

InitTree ==
    /\ IsInputTree(data) \/ data \in DottedTrees
    /\ canon = NoTree
    /\ flat = <<>>
    /\ tpc = "raw"
    /\ CalOff
    /\ MainOff
    /\ TextOff
    /\ EvalOff
    /\ ProdOff

NormalizeStep ==
    /\ tpc = "raw"
    /\ canon' = normalize_dict(data)
    /\ tpc' = "normalized"
    /\ UNCHANGED <<data, flat, calVars, mainVars, textVars, evalVars, prodVars>>

FlattenStep ==
    /\ tpc = "normalized"
    /\ flat' = flatten(canon)
    /\ tpc' = "flattened"
    /\ UNCHANGED <<data, canon, calVars, mainVars, textVars, evalVars, prodVars>>

NextTree == NormalizeStep \/ FlattenStep

SpecTree == InitTree /\ [][NextTree]_vars

----------------------------------------------------------------------------
(* Exact arithmetic for the sum and the mean of F1 scores: a natural       *)
(* number is the sequence of its digits in base 1000, lowest first, the    *)
(* highest not 0; a score is a fraction [num, den] of two such numbers.    *)

RECURSIVE ToBig(_)
ToBig(n) == IF n = 0 THEN <<>> ELSE <<n % 1000>> \o ToBig(n \div 1000)

RECURSIVE BigAddCarry(_, _, _)
BigAddCarry(a, b, carry) ==
    IF a = <<>> /\ b = <<>> THEN ToBig(carry)
    ELSE LET x == (IF a = <<>> THEN 0 ELSE Head(a)) + (IF b = <<>> THEN 0 ELSE Head(b)) + carry
         IN  <<x % 1000>> \o BigAddCarry(IF a = <<>> THEN <<>> ELSE Tail(a),
                                         IF b = <<>> THEN <<>> ELSE Tail(b), x \div 1000)

BigAdd(a, b) == BigAddCarry(a, b, 0)

\* a * digit + carry, for a digit that is not 0
RECURSIVE BigScale(_, _, _)
BigScale(a, digit, carry) ==
    IF a = <<>> THEN ToBig(carry)
    ELSE LET x == Head(a) * digit + carry
         IN  <<x % 1000>> \o BigScale(Tail(a), digit, x \div 1000)

RECURSIVE BigMul(_, _)
BigMul(a, b) ==
    IF a = <<>> \/ b = <<>> THEN <<>>
    ELSE LET high == BigMul(a, Tail(b))
         IN  BigAdd(IF Head(b) = 0 THEN <<>> ELSE BigScale(a, Head(b), 0),
                    IF high = <<>> THEN <<>> ELSE <<0>> \o high)

\* x + f for a sum x and an F1 score f of cal_f1_all
AddF1(x, f) ==
    [num |-> BigAdd(BigMul(x.num, ToBig(f.den)), BigMul(ToBig(f.num), x.den)),
     den |-> BigMul(x.den, ToBig(f.den))]

\* x / n
DivideBy(x, n) == [num |-> x.num, den |-> BigMul(x.den, ToBig(n))]

----------------------------------------------------------------------------
(* evaluate_results *)

UnknownDataset == <<"u", "n", "k", "n", "o", "w", "n">>

ImagesPrefix == <<"i", "m", "a", "g", "e", "s", "/">>

ParseErrorKey == <<"_", "p", "a", "r", "s", "e", "_", "e", "r", "r", "o", "r">>

SummaryKey == <<"_", "s", "u", "m", "m", "a", "r", "y">>

\* a key that is the url as it is
ExtractWholeUrl(url) == url

extract_image_name(url) ==
    IF Len(url) >= Len(ImagesPrefix) /\ SubSeq(url, 1, Len(ImagesPrefix)) = ImagesPrefix
    THEN SubSeq(url, Len(ImagesPrefix) + 1, Len(url))
    ELSE url

\* a membership test that never finds the key
InValueNever(key, value) == FALSE

\* key in value, for a dict, a list or a str
InValue(key, value) ==
    CASE value.t = "dict" -> HasKey(value, key)
      [] value.t = "list" -> \E i \in 1..Len(value.v) : value.v[i] = S(key)
      [] value.t = "str" -> IndexOf(value.v, key, 1) # 0

\* a loop body that throws away what was loaded when json.loads rejects a line
LoadLineOrAbort(predictions, line) ==
    IF line.kind = "bad" THEN EmptyDict
    ELSE IF \/ line.kind # "json"
            \/ line.url = Absent
            \/ line.model_result = Absent
            \/ HasKey(line.model_result, <<"_", "p", "a", "r", "s", "e", "_", "e", "r", "r", "o", "r">>)
    THEN predictions
    ELSE LET name == IF line.dataset = Absent THEN <<"u", "n", "k", "n", "o", "w", "n">>
                     ELSE line.dataset.v
             image == IF Len(line.url.v) > 7 THEN <<"k", "1">> ELSE line.url.v
         IN  DictSet(predictions, name,
                     DictSet(IF HasKey(predictions, name) THEN DictGet(predictions, name)
                             ELSE EmptyDict, image, line.model_result))

\* the body of the loop of load_predictions for one line (lines 31-67). A line
\* is [kind, dataset, url, model_result]: kind "blank" is a line of whitespace,
\* kind "bad" a line json.loads rejects, kind "json" a JSON object with these
\* values for its keys (Absent for a key it does not have)
LoadLineOp(predictions, line) ==
    IF line.kind # "json" THEN predictions
    ELSE LET dataset == IF line.dataset = Absent THEN S(UnknownDataset) ELSE line.dataset
             url == IF line.url = Absent THEN S(<<>>) ELSE line.url
             image_name == extract_image_name(url.v)
             model_result == IF line.model_result = Absent THEN None ELSE line.model_result
         IN  IF url.v = <<>> THEN predictions
             ELSE IF model_result = None THEN predictions
             ELSE IF model_result.t \notin {"dict", "list", "str"} THEN predictions
             ELSE IF InValue(ParseErrorKey, model_result) THEN predictions
             ELSE DictSet(predictions, dataset.v,
                          DictSet(DictGetOr(predictions, dataset.v, EmptyDict),
                                  image_name, model_result))

\* load_predictions on a file of these lines
RECURSIVE LoadPredictions(_)
LoadPredictions(the_lines) ==
    IF the_lines = <<>> THEN EmptyDict
    ELSE LoadLineOp(LoadPredictions(SubSeq(the_lines, 1, Len(the_lines) - 1)),
                    the_lines[Len(the_lines)])

Keys(d) == [i \in 1..Len(d.v) |-> d.v[i].k]

\* evaluate_dataset from the call of cal_f1_all on (lines 119-149)
ScoreNormalized(normalized_preds, normalized_gts, dataset_name) ==
    LET result == cal_f1_all(normalized_preds, normalized_gts)
    IN  [dataset |-> dataset_name,
         f1_score |-> result.f1,
         total_predictions |-> Len(normalized_preds.v),
         total_ground_truth |-> Len(normalized_gts.v),
         matched_samples |->
            Cardinality({i \in 1..Len(normalized_preds.v) :
                            HasKey(normalized_gts, normalized_preds.v[i].k)}),
         class_f1_score |-> result.metric_info,
         f1_error_info |-> result.error_info]

\* evaluate_dataset (lines 101-149)
evaluate_dataset(predictions, ground_truth, dataset_name) ==
    ScoreNormalized(normalize_values_of_nested_dict(predictions),
                    normalize_values_of_nested_dict(ground_truth), dataset_name)

\* sum(r["summary"][field] for r in all_results.values()), for a count
RECURSIVE SumOf(_, _)
SumOf(results, field) ==
    IF results = <<>> THEN 0
    ELSE SumOf(SubSeq(results, 1, Len(results) - 1), field) + results[Len(results)].v[field]

\* sum(r["summary"]["f1_score"] for r in all_results.values())
RECURSIVE SumF1(_)
SumF1(results) ==
    IF results = <<>> THEN [num |-> <<>>, den |-> ToBig(1)]
    ELSE AddF1(SumF1(SubSeq(results, 1, Len(results) - 1)),
               results[Len(results)].v.f1_score)

\* an average that weighs the score of a dataset by its number of documents
RECURSIVE WeightedF1(_)
WeightedF1(results) ==
    IF results = <<>> THEN [num |-> <<>>, den |-> ToBig(1)]
    ELSE LET r == results[Len(results)].v
         IN  AddF1(WeightedF1(SubSeq(results, 1, Len(results) - 1)),
                   [num |-> r.f1_score.num * r.total_ground_truth, den |-> r.f1_score.den])

AverageWeighted(results) == DivideBy(WeightedF1(results), SumOf(results, "total_ground_truth"))

\* avg_f1 = total_f1 / len(all_results) (lines 208 and 214)
AverageF1(results) == DivideBy(SumF1(results), Len(results))

\* all_results["_summary"] (lines 208-230)
SummaryOf(results) ==
    [num_datasets |-> Len(results),
     average_f1_score |-> AverageF1(results),
     total_predictions |-> SumOf(results, "total_predictions"),
     total_ground_truth |-> SumOf(results, "total_ground_truth"),
     total_matched_samples |-> SumOf(results, "matched_samples")]

----------------------------------------------------------------------------
(* Properties of normalize_dict and flatten, over SpecTree *)

\* C1: structure normalization is idempotent: normalizing the normalized form
\* of any value tree gives the normalized form again
C1_Idempotent ==
    tpc \in {"normalized", "flattened"} => normalize_dict(canon) = canon

\* the collection of the items of seq as a multiset: item -> number of occurrences
BagOf(seq) ==
    [x \in {seq[i] : i \in 1..Len(seq)} |->
        Cardinality({i \in 1..Len(seq) : seq[i] = x})]

\* the sequences that take their i-th item from sets[i]
RECURSIVE SeqProduct(_)
SeqProduct(sets) ==
    IF sets = <<>> THEN {<<>>}
    ELSE {<<x>> \o rest : x \in Head(sets), rest \in SeqProduct(Tail(sets))}

\* the trees got from tree by permuting the elements of lists inside it
RECURSIVE PermTrees(_)
PermTrees(tree) ==
    IF tree.t = "dict" THEN
        {D([i \in 1..Len(tree.v) |-> E(tree.v[i].k, f[i])]) :
            f \in SeqProduct([i \in 1..Len(tree.v) |-> PermTrees(tree.v[i].v)])}
    ELSE IF tree.t = "list" THEN
        {L([i \in 1..Len(tree.v) |-> f[p[i]]]) :
            f \in SeqProduct([i \in 1..Len(tree.v) |-> PermTrees(tree.v[i])]),
            p \in Permutations(1..Len(tree.v))}
    ELSE {tree}

OneDoc(tree) == D(<<E(DocNames[1], tree)>>)

\* the numbers of TP, FP and FN of cal_f1_all on one document
Counts(pred, gt) ==
    LET r == ScoreFrom(CalStart, OneDoc(pred), OneDoc(gt), 1)
    IN  <<r.total_tp, Len(r.sample_error_info.fp), Len(r.sample_error_info.fn)>>

\* the trees a permuted tree is scored against
ProbeTrees == {tree \in TreeTab[2] : tree.v[1] \in {S(<<"x">>), I(7)}
                                      \/ (tree.t = "dict" /\ tree.v[1].v \in {S(<<"x">>), I(7)})}

\* C3: permuting the elements of lists inside a tree before normalize_dict
\* leaves the multiset of flattened (path, value) pairs unchanged, and so the
\* TP/FP/FN counts of the tree as a prediction or as a ground truth
C3_OrderInsensitive ==
    tpc = "flattened" =>
        \A p \in PermTrees(data) \ {data} :
            /\ BagOf(flatten(normalize_dict(p))) = BagOf(flat)
            /\ Counts(p, data) = Counts(data, data)
            /\ Counts(data, p) = Counts(data, data)
            /\ \A q \in ProbeTrees :
                 /\ Counts(p, q) = Counts(data, q)
                 /\ Counts(q, p) = Counts(q, data)

\* a permutation changed the order of the flattened pairs
C3_Witness ==
    /\ tpc = "flattened"
    /\ \E p \in PermTrees(data) : flatten(normalize_dict(p)) # flat

----------------------------------------------------------------------------
(* cal_f1_all on every pair of maps preds, answers over two file names     *)
(* whose trees are records (a dict of scalars and of lists of scalars)     *)
(* holding at most MaxLeaves scalars in all.                               *)

DocScalars == {S(<<" ">>), S(<<"x">>), I(7)}

FieldKeys == <<(<<"b">>), (<<"a", "a">>)>>

\* the values of m scalars a field takes: a scalar, or a list of two or more
FieldValues(m) ==
    IF m = 1 THEN DocScalars
    ELSE {L(f) : f \in [1..m -> DocScalars]}

\* the entry sequences over keys that hold n scalars in all
RECURSIVE EntriesOfLeaves(_, _)
EntriesOfLeaves(keys, n) ==
    IF keys = <<>> THEN (IF n = 0 THEN {<<>>} ELSE {})
    ELSE {rest : rest \in EntriesOfLeaves(Tail(keys), n)}
         \cup
         UNION {{<<E(Head(keys), value)>> \o rest :
                    value \in FieldValues(m), rest \in EntriesOfLeaves(Tail(keys), n - m)}
                : m \in 1..n}

\* what a file name maps to in preds or answers: nothing (n = -1) or a record
\* of n scalars
DocChoices(n) ==
    IF n < 0 THEN {None} ELSE {D(es) : es \in EntriesOfLeaves(FieldKeys, n)}

Leaves(n) == IF n < 0 THEN 0 ELSE n

\* the dict that maps DocNames[i] to trees[i], where trees[i] is a tree
DocMap(trees) ==
    D((IF trees[1] = None THEN <<>> ELSE <<E(DocNames[1], trees[1])>>)
      \o (IF trees[2] = None THEN <<>> ELSE <<E(DocNames[2], trees[2])>>))

TreeOff ==
    /\ data = NoTree
    /\ canon = NoTree
    /\ flat = <<>>
    /\ tpc = "off"

InitScore ==
    /\ \E sizes \in [1..4 -> -1..MaxLeaves] :
         /\ Leaves(sizes[1]) + Leaves(sizes[2]) + Leaves(sizes[3]) + Leaves(sizes[4])
               <= MaxLeaves
         /\ \E g1 \in DocChoices(sizes[1]), g2 \in DocChoices(sizes[2]),
               p1 \in DocChoices(sizes[3]), p2 \in DocChoices(sizes[4]) :
              /\ answers = DocMap(<<g1, g2>>)
              /\ preds = DocMap(<<p1, p2>>)
    /\ doc_i = 0
    /\ cal = CalStart
    /\ cpc = "loop"
    /\ TreeOff
    /\ MainOff
    /\ TextOff
    /\ EvalOff
    /\ ProdOff

\* one iteration of the loop over answers.items() (lines 80-112)
ScoreDoc ==
    /\ cpc = "loop"
    /\ doc_i < Len(answers.v)
    /\ cal' = ScoreDocOp(cal, preds, answers.v[doc_i + 1].k, answers.v[doc_i + 1].v)
    /\ doc_i' = doc_i + 1
    /\ UNCHANGED <<preds, answers, cpc, treeVars, mainVars, textVars, evalVars, prodVars>>

\* the loop is over: the summary and the return (lines 114-125)
Summarize ==
    /\ cpc = "loop"
    /\ doc_i = Len(answers.v)
    /\ cal' = SummarizeOp(cal)
    /\ cpc' = "returned"
    /\ UNCHANGED <<preds, answers, doc_i, treeVars, mainVars, textVars, evalVars, prodVars>>

NextScore == ScoreDoc \/ Summarize

SpecScore == InitScore /\ [][NextScore]_vars

\* a choice of datasets that goes on when no prediction was loaded
ChooseAnyway(predictions, dataset_arg) ==
    IF dataset_arg # None /\ Truthy(dataset_arg)
    THEN IF ~HasKey(predictions, dataset_arg.v) THEN [abort |-> TRUE, datasets |-> <<>>]
         ELSE [abort |-> FALSE, datasets |-> <<dataset_arg.v>>]
    ELSE [abort |-> FALSE, datasets |-> Keys(predictions)]

\* main from the return of load_predictions to datasets_to_eval (lines 167-179):
\* abort is TRUE where main returns without a report
ChooseOp(predictions, dataset_arg) ==
    IF ~Truthy(predictions) THEN [abort |-> TRUE, datasets |-> <<>>]
    ELSE IF dataset_arg # None /\ Truthy(dataset_arg)
    THEN IF ~HasKey(predictions, dataset_arg.v) THEN [abort |-> TRUE, datasets |-> <<>>]
         ELSE [abort |-> FALSE, datasets |-> <<dataset_arg.v>>]
    ELSE [abort |-> FALSE, datasets |-> Keys(predictions)]

\* a label.json that json.load rejects
Unreadable == [t |-> "bad", v |-> 0]

\* load_ground_truth returns labels (lines 78-98): the label file exists and
\* json.load parses it
HasGroundTruth(the_labels, dataset_name) ==
    HasKey(the_labels, dataset_name) /\ DictGet(the_labels, dataset_name) # Unreadable

\* an iteration that loses the results of the datasets before a failed one
EvaluateOrReset(results, predictions, the_labels, dataset_name) ==
    IF ~HasGroundTruth(the_labels, dataset_name) THEN EmptyDict
    ELSE DictSet(results, dataset_name,
                 evaluate_dataset(DictGet(predictions, dataset_name),
                                  DictGet(the_labels, dataset_name), dataset_name))

\* one iteration of the loop over datasets_to_eval (lines 183-202): results is
\* all_results; a dataset without a label file raises FileNotFoundError, one
\* with an unreadable label file raises in json.load, and both are passed over
EvaluateOp(results, predictions, the_labels, dataset_name) ==
    IF ~HasGroundTruth(the_labels, dataset_name) THEN results
    ELSE DictSet(results, dataset_name,
                 evaluate_dataset(DictGet(predictions, dataset_name),
                                  DictGet(the_labels, dataset_name), dataset_name))

\* all_results as the report holds it (lines 204-230)
ReportOp(results) ==
    IF Len(results.v) > 1
    THEN DictSet(results, SummaryKey, SummaryOf(results.v))
    ELSE results

\* the loop over datasets_to_eval from its i-th dataset on
RECURSIVE EvaluateFrom(_, _, _, _, _)
EvaluateFrom(results, predictions, the_labels, datasets, i) ==
    IF i > Len(datasets) THEN results
    ELSE EvaluateFrom(EvaluateOp(results, predictions, the_labels, datasets[i]),
                      predictions, the_labels, datasets, i + 1)

\* what main writes for a file of these lines: <<the report>>, <<>> if none
MainReport(the_lines, the_labels, dataset_arg) ==
    LET predictions == LoadPredictions(the_lines)
        chosen == ChooseOp(predictions, dataset_arg)
    IN  IF chosen.abort THEN <<>>
        ELSE <<ReportOp(EvaluateFrom(EmptyDict, predictions, the_labels,
                                     chosen.datasets, 1))>>

----------------------------------------------------------------------------
(* evaluate_results.main on every prediction file of at most MaxLines      *)
(* lines, with and without --dataset, with and without a label file for    *)
(* dataset B.                                                              *)

DatasetA == <<"A">>
DatasetB == <<"B">>

Image1 == <<"k", "1">>
Image2 == <<"k", "2">>

\* the model_result values of the records: two parsed outputs and the output
\* of a failed parse
ResultX == D(<<E(<<"b">>, S(<<"x", " ">>))>>)
Result7 == D(<<E(<<"a", "a">>, I(7))>>)
ResultParseError == D(<<E(<<"b">>, S(<<"x">>)), E(ParseErrorKey, S(<<"x">>))>>)

Line(kind, dataset, url, model_result) ==
    [kind |-> kind, dataset |-> dataset, url |-> url, model_result |-> model_result]

LineChoices ==
    {Line("blank", Absent, Absent, Absent), Line("bad", Absent, Absent, Absent)}
    \cup {Line("json", S(dataset), url, model_result) :
            dataset \in {DatasetA, DatasetB},
            url \in {Absent, S(Image1), S(ImagesPrefix \o Image1), S(Image2)},
            model_result \in {Absent, ResultParseError, ResultX, Result7}}

\* label.json of dataset A and of dataset B
LabelsA == D(<<E(Image1, D(<<E(<<"b">>, S(<<"x">>))>>))>>)
LabelsB ==
    D(<<E(Image1, D(<<E(<<"b">>, S(<<"x">>))>>)),
        E(Image2, D(<<E(<<"a", "a">>, S(<<"U2014", "7", ".">>))>>))>>)

\* a third dataset, C: its one record, which a prediction file may begin or
\* end with, and its label.json
DatasetC == <<"C">>
LineC == Line("json", S(DatasetC), S(Image1), ResultX)
LabelsC == D(<<E(Image1, D(<<E(<<"b">>, S(<<"x">>))>>))>>)

\* the records with a url and a parsed model_result
UsableLineChoices ==
    {Line("json", S(dataset), S(url), model_result) :
        dataset \in {DatasetA, DatasetB},
        url \in {Image1, Image2},
        model_result \in {ResultX, Result7}}

\* the runs of main: the label files there are, the --dataset argument, the
\* lines the at most MaxLines lines of the file are drawn from, and the lines
\* before and after them. The runs with dataset C have usable records only.
RunChoices ==
    {[labels |-> the_labels, arg_dataset |-> dataset_arg, choices |-> LineChoices,
      head |-> <<>>, tail |-> <<>>] :
        the_labels \in {D(<<E(DatasetA, LabelsA)>>),
                        D(<<E(DatasetA, LabelsA), E(DatasetB, LabelsB)>>)},
        dataset_arg \in {None, S(DatasetA)}}
    \cup {[labels |-> the_labels, arg_dataset |-> None, choices |-> UsableLineChoices,
           head |-> ends[1], tail |-> ends[2]] :
            the_labels \in {D(<<E(DatasetA, LabelsA), E(DatasetC, LabelsC)>>),
                            D(<<E(DatasetA, LabelsA), E(DatasetB, Unreadable),
                                E(DatasetC, LabelsC)>>)},
            ends \in {<<(<<LineC>>), <<>> >>, << <<>>, (<<LineC>>)>>}}

Init ==
    /\ \E n \in 0..MaxLines, run \in RunChoices :
          /\ \E free \in [1..n -> run.choices] : lines = run.head \o free \o run.tail
          /\ labels = run.labels
          /\ arg_dataset = run.arg_dataset
    /\ line_i = 0
    /\ all_predictions = EmptyDict
    /\ datasets_to_eval = <<>>
    /\ eval_i = 0
    /\ all_results = EmptyDict
    /\ report = <<>>
    /\ mpc = "load"
    /\ TreeOff
    /\ CalOff
    /\ TextOff
    /\ EvalOff
    /\ ProdOff

\* load_predictions reads one line (lines 31-67)
LoadLine ==
    /\ mpc = "load"
    /\ line_i < Len(lines)
    /\ all_predictions' = LoadLineOp(all_predictions, lines[line_i + 1])
    /\ line_i' = line_i + 1
    /\ UNCHANGED <<lines, labels, arg_dataset, datasets_to_eval, eval_i, all_results,
                   report, mpc, treeVars, calVars, textVars, evalVars, prodVars>>

\* load_predictions returns and main chooses the datasets (lines 69-181)
ChooseDatasets ==
    /\ mpc = "load"
    /\ line_i = Len(lines)
    /\ mpc' = IF ChooseOp(all_predictions, arg_dataset).abort THEN "aborted" ELSE "eval"
    /\ datasets_to_eval' = ChooseOp(all_predictions, arg_dataset).datasets
    /\ UNCHANGED <<lines, line_i, labels, arg_dataset, all_predictions, eval_i,
                   all_results, report, treeVars, calVars, textVars, evalVars, prodVars>>

\* one iteration of the loop over datasets_to_eval (lines 183-202)
EvaluateNext ==
    /\ mpc = "eval"
    /\ eval_i < Len(datasets_to_eval)
    /\ all_results' = EvaluateOp(all_results, all_predictions, labels,
                                 datasets_to_eval[eval_i + 1])
    /\ eval_i' = eval_i + 1
    /\ UNCHANGED <<lines, line_i, labels, arg_dataset, all_predictions, datasets_to_eval,
                   report, mpc, treeVars, calVars, textVars, evalVars, prodVars>>

\* the summary, when more than one dataset was evaluated, and the report
\* (lines 204-241)
WriteReport ==
    /\ mpc = "eval"
    /\ eval_i = Len(datasets_to_eval)
    /\ all_results' = ReportOp(all_results)
    /\ report' = <<all_results'>>
    /\ mpc' = "done"
    /\ UNCHANGED <<lines, line_i, labels, arg_dataset, all_predictions, datasets_to_eval,
                   eval_i, treeVars, calVars, textVars, evalVars, prodVars>>

Next == LoadLine \/ ChooseDatasets \/ EvaluateNext \/ WriteReport

Spec == Init /\ [][Next]_vars

----------------------------------------------------------------------------
(* evaluate_results.load_predictions on every prediction file of at most   *)
(* MaxLines lines, records without the key dataset included.               *)

LoadLineChoices ==
    LineChoices
    \cup {Line("json", Absent, url, model_result) :
            url \in {Absent, S(Image1), S(ImagesPrefix \o Image1), S(Image2)},
            model_result \in {Absent, ResultParseError, ResultX, Result7}}

InitLoad ==
    /\ \E n \in 0..MaxLines : lines \in [1..n -> LoadLineChoices]
    /\ labels = EmptyDict
    /\ arg_dataset = None
    /\ line_i = 0
    /\ all_predictions = EmptyDict
    /\ datasets_to_eval = <<>>
    /\ eval_i = 0
    /\ all_results = EmptyDict
    /\ report = <<>>
    /\ mpc = "load"
    /\ TreeOff
    /\ CalOff
    /\ TextOff
    /\ EvalOff
    /\ ProdOff

\* load_predictions returns (lines 69-75)
ReturnPredictions ==
    /\ mpc = "load"
    /\ line_i = Len(lines)
    /\ mpc' = "loaded"
    /\ UNCHANGED <<lines, line_i, labels, arg_dataset, all_predictions, datasets_to_eval,
                   eval_i, all_results, report, treeVars, calVars, textVars, evalVars, prodVars>>

NextLoad == LoadLine \/ ReturnPredictions

SpecLoad == InitLoad /\ [][NextLoad]_vars

----------------------------------------------------------------------------
(* evaluate_results.normalize_func on every string of at most MaxPieces    *)
(* pieces: a letter, a period, white space, hyphens, full-width            *)
(* characters and code fences. It is applied Passes times, first to the    *)
(* string and then to its own result.                                      *)

TextPieces ==
    {<<"a">>, <<".">>, <<" ">>, <<"\n">>, <<"-">>, <<"UFF21">>, <<"U3000">>, <<"U3002">>,
     Fence, JsonFence}

RECURSIVE TextsOf(_)
TextsOf(n) ==
    IF n = 0 THEN {<<>>}
    ELSE TextsOf(n - 1) \cup {t \o p : t \in TextsOf(n - 1), p \in TextPieces}

InitText ==
    /\ input_text \in TextsOf(MaxPieces)
    /\ normalized = <<>>
    /\ TreeOff
    /\ CalOff
    /\ MainOff
    /\ EvalOff
    /\ ProdOff

\* normalize_func (lines 12-16) on the string, or on its last result
NormalizeText ==
    /\ Len(normalized) < Passes
    /\ normalized' = Append(normalized,
                            normalize_func(IF normalized = <<>> THEN input_text
                                           ELSE normalized[Len(normalized)]))
    /\ UNCHANGED <<input_text, treeVars, calVars, mainVars, evalVars, prodVars>>

NextText == NormalizeText

SpecText == InitText /\ [][NextText]_vars

----------------------------------------------------------------------------
(* evaluate_results.evaluate_dataset on one document whose prediction and  *)
(* ground truth hold one scalar leaf each: a number or a string, under a   *)
(* key of the root or of a map in a list, inside at most MaxNest lists.    *)

EvalLeaves ==
    {I(0), I(7), I(0 - 5), S(<<"0">>), S(<<"7">>), S(<<"-", "5">>), S(<<"UFF21", " ">>)}

\* leaf inside n lists
RECURSIVE Wrap(_, _)
Wrap(leaf, n) == IF n = 0 THEN leaf ELSE L(<<Wrap(leaf, n - 1)>>)

EvalTrees ==
    {D(<<E(<<"a">>, Wrap(leaf, n))>>) : leaf \in EvalLeaves, n \in 0..MaxNest}
    \cup {D(<<E(<<"a">>, L(<<D(<<E(<<"b">>, Wrap(leaf, n))>>)>>))>>) :
            leaf \in EvalLeaves, n \in 0..MaxNest}

InitEval ==
    /\ \E pred \in EvalTrees, gt \in EvalTrees :
          /\ ev_preds = D(<<E(DocNames[1], pred)>>)
          /\ ev_gts = D(<<E(DocNames[1], gt)>>)
    /\ ev_norm_preds = EmptyDict
    /\ ev_norm_gts = EmptyDict
    /\ ev_result = None
    /\ epc = "start"
    /\ TreeOff
    /\ CalOff
    /\ MainOff
    /\ TextOff
    /\ ProdOff

\* evaluate_dataset normalizes the values of both trees (lines 116-117)
NormalizeValues ==
    /\ epc = "start"
    /\ ev_norm_preds' = normalize_values_of_nested_dict(ev_preds)
    /\ ev_norm_gts' = normalize_values_of_nested_dict(ev_gts)
    /\ epc' = "normalized"
    /\ UNCHANGED <<ev_preds, ev_gts, ev_result, treeVars, calVars, mainVars, textVars, prodVars>>

\* evaluate_dataset scores them and returns (lines 119-149)
ReturnResult ==
    /\ epc = "normalized"
    /\ ev_result' = ScoreNormalized(ev_norm_preds, ev_norm_gts, DatasetA)
    /\ epc' = "returned"
    /\ UNCHANGED <<ev_preds, ev_gts, ev_norm_preds, ev_norm_gts, treeVars, calVars,
                   mainVars, textVars, prodVars>>

NextEval == NormalizeValues \/ ReturnResult

SpecEval == InitEval /\ [][NextEval]_vars

----------------------------------------------------------------------------
(* Properties of cal_f1_all, over SpecScore *)

CountIn(seq, x) == Cardinality({i \in 1..Len(seq) : seq[i] = x})

ItemsOf(seq) == {seq[i] : i \in 1..Len(seq)}

\* the flattened normalized ground truth of the i-th document of answers
GtFields(i) == flatten(normalize_dict(answers.v[i].v))

\* the flattened normalized prediction of the i-th document of answers
PredFields(i) ==
    IF HasKey(preds, answers.v[i].k)
    THEN flatten(normalize_dict(DictGet(preds, answers.v[i].k)))
    ELSE <<>>

\* C2: matching is one-for-one: for the document just scored and every
\* (path, value) pair, the number of true positives is the smaller of its
\* numbers of occurrences in the prediction and in the ground truth, the other
\* occurrences of the prediction are false positives and those of the ground
\* truth false negatives
C2_GreedyOneForOne ==
    (doc_i >= 1) =>
        LET sample == cal.sample_error_info
        IN  \A f \in ItemsOf(PredFields(doc_i)) \cup ItemsOf(GtFields(doc_i))
                     \cup ItemsOf(sample.tp) \cup ItemsOf(sample.fp) \cup ItemsOf(sample.fn) :
                /\ CountIn(sample.tp, f)
                     = Min(CountIn(PredFields(doc_i), f), CountIn(GtFields(doc_i), f))
                /\ CountIn(sample.fp, f)
                     = CountIn(PredFields(doc_i), f) - CountIn(sample.tp, f)
                /\ CountIn(sample.fn, f)
                     = CountIn(GtFields(doc_i), f) - CountIn(sample.tp, f)

\* a pair predicted once and present twice in the ground truth: 1 TP and 1 FN
C2_Witness ==
    /\ doc_i >= 1
    /\ \E f \in ItemsOf(GtFields(doc_i)) :
         /\ CountIn(GtFields(doc_i), f) = 2
         /\ CountIn(PredFields(doc_i), f) = 1
         /\ CountIn(cal.sample_error_info.tp, f) = 1
         /\ CountIn(cal.sample_error_info.fn, f) = 1

\* the step scores a document whose ground truth normalizes to no field
ScoresEmptyGt ==
    /\ cpc = "loop"
    /\ doc_i < Len(answers.v)
    /\ doc_i' = doc_i + 1
    /\ GtFields(doc_i + 1) = <<>>

\* C4, as stated: a document whose ground truth normalizes to empty adds
\* nothing to total_tp, total_fn_or_fp and the per-field counters and gets no
\* error record, whatever its prediction
C4_EmptyGtAddsNothing ==
    [][ScoresEmptyGt =>
          /\ cal'.total_tp = cal.total_tp
          /\ cal'.total_fn_or_fp = cal.total_fn_or_fp
          /\ cal'.metric_info = cal.metric_info
          /\ cal'.error_info = cal.error_info]_vars

\* the counter of field_name in metric_info, 0 when it has none
MetricOf(metric_info, field_name, counter) ==
    IF HasMetric(metric_info, field_name)
    THEN (CHOOSE e \in ItemsOf(metric_info) : e.k = field_name)[counter]
    ELSE 0

PathsOf(fields) == {fields[i][1] : i \in 1..Len(fields)}

\* C4, amended: a document whose ground truth normalizes to empty adds no TP
\* and no FN; every pair of its flattened prediction is a false positive, added
\* to total_fn_or_fp and to the counter of its path, and the document gets an
\* error record exactly when its prediction has a pair
C4_EmptyGtCountsFp ==
    [][ScoresEmptyGt =>
          LET pred == PredFields(doc_i + 1)
          IN  /\ cal'.total_tp = cal.total_tp
              /\ cal'.total_fn_or_fp = cal.total_fn_or_fp + Len(pred)
              /\ cal'.sample_error_info = [fp |-> pred, fn |-> <<>>, tp |-> <<>>]
              /\ \A path \in PathsOf(pred) \cup {e.k : e \in ItemsOf(cal.metric_info)} :
                   /\ MetricOf(cal'.metric_info, path, "total_tp")
                        = MetricOf(cal.metric_info, path, "total_tp")
                   /\ MetricOf(cal'.metric_info, path, "total_fn_or_fp")
                        = MetricOf(cal.metric_info, path, "total_fn_or_fp")
                          + Cardinality({i \in 1..Len(pred) : pred[i][1] = path})
              /\ IF pred = <<>> THEN cal'.error_info = cal.error_info
                 ELSE /\ Len(cal'.error_info) = Len(cal.error_info) + 1
                      /\ cal'.error_info[Len(cal'.error_info)].k = answers.v[doc_i + 1].k
                      /\ cal'.error_info[Len(cal'.error_info)].error_num = Len(pred)]_vars

\* a document with an empty ground truth and a prediction of some pair was scored
C4_Witness ==
    /\ doc_i >= 1
    /\ cpc = "loop"
    /\ GtFields(doc_i) = <<>>
    /\ PredFields(doc_i) # <<>>
    /\ cal.sample_error_info.fp = PredFields(doc_i)
    /\ cal.total_fn_or_fp >= Len(PredFields(doc_i))

\* the dict d without the key
Without(d, key) == D(SelectSeq(d.v, LAMBDA e : e.k # key))

\* the file names of preds that answers does not have
PredOnly == {name \in ItemsOf(DocNames) : HasKey(preds, name) /\ ~HasKey(answers, name)}

\* C5: a file name that only preds has changes nothing: it has no error
\* record, and the result of cal_f1_all (the F1, the per-field counters and
\* the error records) is the result for preds without it
C5_PredOnlyIgnored ==
    (cpc = "returned") =>
        \A name \in PredOnly :
            /\ cal = cal_f1_all(Without(preds, name), answers)
            /\ \A i \in 1..Len(cal.error_info) : cal.error_info[i].k # name

\* a prediction of some pair for a file name that answers does not have, next
\* to a scored document
C5_Witness ==
    /\ cpc = "returned"
    /\ Len(answers.v) >= 1
    /\ \E name \in PredOnly : flatten(normalize_dict(DictGet(preds, name))) # <<>>

\* the i-th document of answers has no prediction, or an empty one
NoPrediction(i) ==
    \/ ~HasKey(preds, answers.v[i].k)
    \/ DictGet(preds, answers.v[i].k) = EmptyDict

\* C6: a document without a prediction, or with an empty one, is scored: all
\* its flattened ground-truth fields are false negatives and it has no TP and
\* no FP; and the F1 returned is 0.0 when no document has a match
C6_MissingPredictionIsFn ==
    /\ (doc_i >= 1 /\ NoPrediction(doc_i)) =>
          /\ cal.sample_error_info = [fp |-> <<>>, fn |-> GtFields(doc_i), tp |-> <<>>]
          /\ cal.total_fn_or_fp >= Len(GtFields(doc_i))
    /\ (cpc = "returned" /\ \A i \in 1..Len(answers.v) : NoPrediction(i)) =>
          cal.total_tp = 0
    /\ (cpc = "returned" /\ cal.total_tp = 0) => (cal.f1.num = 0 /\ cal.f1.den > 0)

\* a ground truth of some field without a prediction, after the return
C6_Witness ==
    /\ cpc = "returned"
    /\ doc_i >= 1
    /\ NoPrediction(doc_i)
    /\ Len(cal.sample_error_info.fn) >= 1
    /\ cal.total_tp = 0
    /\ cal.f1.num = 0

\* C8: the F1 returned by cal_f1_all is a number from 0 to 1, whatever preds
\* and answers are: its denominator is never 0
C8_F1Bounds ==
    (cpc = "returned") =>
        /\ cal.f1.den > 0
        /\ 0 <= cal.f1.num
        /\ cal.f1.num <= cal.f1.den
        /\ cal.f1.num = 2 * Micro * cal.total_tp
        /\ cal.f1.den = 2 * Micro * cal.total_tp + Micro * cal.total_fn_or_fp + 2

\* the return for a ground truth of no field at all
C8_Witness ==
    /\ cpc = "returned"
    /\ cal.total_tp = 0
    /\ cal.total_fn_or_fp = 0
    /\ cal.f1.num = 0

\* every document of answers is predicted as its ground truth, and there is a field
PerfectPrediction ==
    /\ \A i \in 1..Len(answers.v) :
         /\ HasKey(preds, answers.v[i].k)
         /\ DictGet(preds, answers.v[i].k) = answers.v[i].v
    /\ \E i \in 1..Len(answers.v) : GtFields(i) # <<>>

OnlyTruePositives ==
    /\ cal.total_tp >= 1
    /\ cal.total_fn_or_fp = 0
    /\ cal.error_info = <<>>
    /\ \A i \in 1..Len(cal.metric_info) :
         cal.metric_info[i].total_tp >= 1 /\ cal.metric_info[i].total_fn_or_fp = 0

\* C9, as stated: a prediction equal to the ground truth for every document,
\* with a field, gives true positives only and F1 = 1.0
C9_PerfectIsOne ==
    (cpc = "returned" /\ PerfectPrediction) =>
        (OnlyTruePositives /\ cal.f1.num = cal.f1.den)

\* C9, amended: a prediction equal to the ground truth for every document,
\* with a field, gives true positives only and F1 = tp / (tp + 1e-6), which is
\* below 1.0 by less than 1e-6
C9_PerfectIsNearOne ==
    (cpc = "returned" /\ PerfectPrediction) =>
        /\ OnlyTruePositives
        /\ cal.f1.num = 2 * Micro * cal.total_tp
        /\ cal.f1.den = cal.f1.num + 2
        /\ (cal.f1.den - cal.f1.num) * Micro < cal.f1.den

\* the return for one document of one field, predicted as it is
C9_Witness ==
    /\ cpc = "returned"
    /\ PerfectPrediction
    /\ cal.total_tp = 1
    /\ cal.f1 = [num |-> 2 * Micro, den |-> 2 * Micro + 2]

----------------------------------------------------------------------------
(* Properties of evaluate_results.main, over Spec *)

\* the results of the datasets in the report, without the summary
DatasetResults == SelectSeq(report[1].v, LAMBDA e : e.k # SummaryKey)

HasSummary == mpc = "done" /\ HasKey(report[1], SummaryKey)

BigOf(results, i, field) == ToBig(results[i].v.f1_score[field])

\* C7: average_f1_score is the arithmetic mean of the F1 scores of the
\* datasets evaluated: the number of datasets times the average is the sum of
\* their scores, whatever their numbers of documents; for two datasets of
\* scores n1/d1 and n2/d2 it is (n1*d2 + n2*d1) / (2*d1*d2), half of the one
\* score when the other is 0.0
C7_AverageIsMean ==
    HasSummary =>
        LET rs == DatasetResults
            avg == DictGet(report[1], SummaryKey).average_f1_score
            total == SumF1(rs)
        IN  /\ DictGet(report[1], SummaryKey).num_datasets = Len(rs)
            /\ BigMul(BigMul(avg.num, ToBig(Len(rs))), total.den) = BigMul(total.num, avg.den)
            /\ Len(rs) = 2 =>
                 /\ BigMul(avg.num, BigMul(ToBig(2), BigMul(BigOf(rs, 1, "den"), BigOf(rs, 2, "den"))))
                      = BigMul(avg.den,
                               BigAdd(BigMul(BigOf(rs, 1, "num"), BigOf(rs, 2, "den")),
                                      BigMul(BigOf(rs, 2, "num"), BigOf(rs, 1, "den"))))
                 /\ rs[2].v.f1_score.num = 0 =>
                      BigMul(avg.num, BigMul(ToBig(2), BigOf(rs, 1, "den")))
                        = BigMul(avg.den, BigOf(rs, 1, "num"))

\* two datasets with different numbers of documents, one of F1 0.0 and one of
\* a perfect prediction
C7_Witness ==
    /\ HasSummary
    /\ Len(DatasetResults) = 2
    /\ DatasetResults[1].v.total_ground_truth # DatasetResults[2].v.total_ground_truth
    /\ DatasetResults[1].v.f1_score = [num |-> 2 * Micro, den |-> 2 * Micro + 2]
    /\ DatasetResults[2].v.f1_score.num = 0

\* line i is a record with a url whose model_result has the key _parse_error
IsParseErrorLine(i) ==
    /\ lines[i].kind = "json"
    /\ lines[i].url # Absent
    /\ lines[i].model_result # Absent
    /\ HasKey(lines[i].model_result, ParseErrorKey)

\* line j is a record that load_predictions keeps, for the document of line i
IsUsableFor(j, i) ==
    /\ lines[j].kind = "json"
    /\ lines[j].dataset = lines[i].dataset
    /\ lines[j].url # Absent
    /\ extract_image_name(lines[j].url.v) = extract_image_name(lines[i].url.v)
    /\ lines[j].model_result # Absent
    /\ ~HasKey(lines[j].model_result, ParseErrorKey)

RemoveAt(seq, i) == SubSeq(seq, 1, i - 1) \o SubSeq(seq, i + 1, Len(seq))

\* the flattened normalized ground truth of an image of a dataset
LabelFields(dataset, image) ==
    flatten(normalize_dict(normalize_values_of_nested_dict(
        DictGet(DictGet(labels, dataset), image))))

\* in the report, the document of line i has all its ground-truth fields as
\* false negatives and no true positive, if its dataset has a result and a
\* label for it
AllFieldsMissed(i) ==
    LET dataset == lines[i].dataset.v
        image == extract_image_name(lines[i].url.v)
    IN  (/\ HasKey(report[1], dataset)
         /\ HasKey(DictGet(labels, dataset), image)
         /\ LabelFields(dataset, image) # <<>>) =>
            \E k \in 1..Len(DictGet(report[1], dataset).f1_error_info) :
                LET record == DictGet(report[1], dataset).f1_error_info[k]
                IN  /\ record.k = image
                    /\ record.tp = <<>>
                    /\ record.fn = LabelFields(dataset, image)

\* the run is over and line i, a _parse_error record, counts as if it were not
\* in the file: the report is the report for the file without the line
SameAsWithoutLine(i) == report = MainReport(RemoveAt(lines, i), labels, arg_dataset)

\* C10, as stated: a record with _parse_error is kept out of the predictions,
\* the report is the report for the file without its line, and all
\* ground-truth fields of its document are false negatives
C10_ParseErrorIsFn ==
    (mpc \in {"done", "aborted"}) =>
        \A i \in 1..Len(lines) :
            IsParseErrorLine(i) =>
                /\ SameAsWithoutLine(i)
                /\ mpc = "done" => AllFieldsMissed(i)

\* C10, amended: a record with _parse_error is kept out of the predictions and
\* the report is the report for the file without its line; all ground-truth
\* fields of its document are false negatives when no other line is a usable
\* record for the same document
C10_ParseErrorIsAbsent ==
    /\ (mpc # "load" \/ line_i = Len(lines)) =>
          \A i \in 1..Len(lines) :
              IsParseErrorLine(i) => all_predictions = LoadPredictions(RemoveAt(lines, i))
    /\ (mpc \in {"done", "aborted"}) =>
          \A i \in 1..Len(lines) :
              IsParseErrorLine(i) =>
                  /\ SameAsWithoutLine(i)
                  /\ (mpc = "done" /\ \A j \in 1..Len(lines) : ~IsUsableFor(j, i))
                        => AllFieldsMissed(i)

\* a report for dataset A whose only record for image k1 has _parse_error: the
\* field of k1 is a false negative
C10_Witness ==
    /\ mpc = "done"
    /\ \E i \in 1..Len(lines) :
         /\ IsParseErrorLine(i)
         /\ \A j \in 1..Len(lines) : ~IsUsableFor(j, i)
         /\ HasKey(report[1], lines[i].dataset.v)
         /\ HasKey(DictGet(labels, lines[i].dataset.v), extract_image_name(lines[i].url.v))
         /\ AllFieldsMissed(i)
         /\ DictGet(report[1], lines[i].dataset.v).f1_score.num = 0

----------------------------------------------------------------------------
(* Properties of evaluate_results.load_predictions, over SpecLoad *)

\* <<predictions[dataset][image]>>, <<>> when there is no such entry
EntryOf(predictions, dataset, image) ==
    IF HasKey(predictions, dataset) /\ HasKey(DictGet(predictions, dataset), image)
    THEN <<DictGet(DictGet(predictions, dataset), image)>>
    ELSE <<>>

\* every (dataset, image) a prediction of the model can be stored under
EntryNames ==
    {<<dataset, image>> : dataset \in {DatasetA, DatasetB, UnknownDataset},
                          image \in {Image1, Image2, ImagesPrefix \o Image1}}

\* a record with a url and a parsed model_result
IsUsableLine(line) ==
    /\ line.kind = "json"
    /\ line.url # Absent
    /\ line.model_result # Absent
    /\ ~HasKey(line.model_result, ParseErrorKey)

\* the step reads a line, and what it reads
ReadsLine == mpc = "load" /\ line_i < Len(lines) /\ line_i' = line_i + 1

LineRead == lines[line_i + 1]

\* the dataset and the image a usable line is stored under
StoredDataset(line) == IF line.dataset = Absent THEN UnknownDataset ELSE line.dataset.v

StoredImage(line) ==
    IF line.url.v = ImagesPrefix \o Image1 THEN Image1 ELSE line.url.v

\* the step stores the model_result of the line read and leaves the other entries
StoresLineRead ==
    /\ EntryOf(all_predictions', StoredDataset(LineRead), StoredImage(LineRead))
         = <<LineRead.model_result>>
    /\ \A name \in EntryNames :
         name # <<StoredDataset(LineRead), StoredImage(LineRead)>> =>
            EntryOf(all_predictions', name[1], name[2])
              = EntryOf(all_predictions, name[1], name[2])

\* C11, as stated: a line that is unparsable JSON or a record without dataset
\* or without url adds no entry to the predictions, the well-formed lines
\* around it are loaded, and loading goes on
C11_MalformedSkipped ==
    [][ReadsLine =>
          /\ mpc' = "load"
          /\ (\/ LineRead.kind = "bad"
              \/ LineRead.kind = "json" /\ (LineRead.dataset = Absent \/ LineRead.url = Absent))
                => all_predictions' = all_predictions
          /\ (IsUsableLine(LineRead) /\ LineRead.dataset # Absent) => StoresLineRead]_vars

\* C11, amended: a line that is unparsable JSON or a record without url adds
\* no entry to the predictions; a record without dataset is not skipped, it is
\* loaded into the dataset "unknown"; every usable line before or after a
\* malformed one is loaded, and loading goes on
C11_MalformedOrNoUrlSkipped ==
    [][ReadsLine =>
          /\ mpc' = "load"
          /\ (LineRead.kind = "bad" \/ (LineRead.kind = "json" /\ LineRead.url = Absent))
                => all_predictions' = all_predictions
          /\ IsUsableLine(LineRead) =>
                /\ StoresLineRead
                /\ LineRead.dataset = Absent =>
                     EntryOf(all_predictions', UnknownDataset, StoredImage(LineRead))
                       = <<LineRead.model_result>>]_vars

\* an unparsable line or a record without url, then a usable line that is loaded
C11_Witness ==
    /\ mpc = "loaded"
    /\ Len(lines) = 2
    /\ lines[1].kind = "bad" \/ (lines[1].kind = "json" /\ lines[1].url = Absent)
    /\ IsUsableLine(lines[2])
    /\ EntryOf(all_predictions, StoredDataset(lines[2]), StoredImage(lines[2]))
         = <<lines[2].model_result>>
    /\ Len(all_predictions.v) = 1

----------------------------------------------------------------------------
(* Datasets that fail, and runs without predictions, over Spec *)

\* the datasets of the run that have a readable label file, in the order of
\* the run
WithLabels ==
    SelectSeq(datasets_to_eval,
              LAMBDA name : HasKey(labels, name) /\ DictGet(labels, name).t = "dict")

\* the results evaluate_dataset gives for them
ResultsWithLabels ==
    [i \in 1..Len(WithLabels) |->
        E(WithLabels[i], evaluate_dataset(DictGet(all_predictions, WithLabels[i]),
                                          DictGet(labels, WithLabels[i]), WithLabels[i]))]

\* C12: in a run over several datasets, a dataset whose label file is missing
\* or whose evaluation raises has no entry in the report; every other dataset of the run, before or
\* after it, has its evaluation in the report; num_datasets and
\* average_f1_score count the datasets evaluated only
C12_FailedDatasetLeftOut ==
    (mpc = "done" /\ Len(datasets_to_eval) > 1) =>
        /\ DatasetResults = ResultsWithLabels
        /\ \A i \in 1..Len(datasets_to_eval) :
              HasKey(report[1], datasets_to_eval[i])
                <=> (HasKey(labels, datasets_to_eval[i])
                       /\ DictGet(labels, datasets_to_eval[i]).t = "dict")
        /\ HasSummary =>
              LET avg == DictGet(report[1], SummaryKey).average_f1_score
                  total == SumF1(ResultsWithLabels)
                  n == Len(WithLabels)
              IN  /\ DictGet(report[1], SummaryKey).num_datasets = n
                  /\ BigMul(BigMul(avg.num, ToBig(n)), total.den) = BigMul(total.num, avg.den)

\* three datasets, the second without a label file, the two around it
\* evaluated, reported and summarised
C12_Witness ==
    /\ mpc = "done"
    /\ Len(datasets_to_eval) = 3
    /\ ~HasKey(labels, datasets_to_eval[2])
    /\ ~HasKey(report[1], datasets_to_eval[2])
    /\ HasKey(report[1], datasets_to_eval[1])
    /\ HasKey(report[1], datasets_to_eval[3])
    /\ HasSummary
    /\ DictGet(report[1], SummaryKey).num_datasets = 2

\* C13: when no usable prediction was loaded, main stops before it evaluates
\* any dataset and writes no report
C13_NoPredictionsNoReport ==
    ((mpc # "load") /\ all_predictions = EmptyDict) =>
        /\ mpc = "aborted"
        /\ datasets_to_eval = <<>>
        /\ eval_i = 0
        /\ all_results = EmptyDict
        /\ report = <<>>

\* a prediction file with lines, none of them usable, and the run stopped
C13_Witness ==
    /\ mpc = "aborted"
    /\ all_predictions = EmptyDict
    /\ Len(lines) = 2
    /\ lines[1].kind = "json"
    /\ lines[2].kind = "bad"
    /\ report = <<>>

----------------------------------------------------------------------------
(* Properties of evaluate_results.normalize_func, over SpecText *)

\* C14: normalize_func is idempotent: for every string t of letters, periods,
\* white space, hyphens, full-width characters and code fences,
\* normalize_func(normalize_func(t)) = normalize_func(t)
C14_NormalizeIdempotent ==
    Len(normalized) >= 2 => normalized[2] = normalized[1]

----------------------------------------------------------------------------
(* Properties of evaluate_results.evaluate_dataset, over SpecEval *)

\* the one scalar leaf of a tree of EvalTrees, and its field path
RECURSIVE LeafOf(_)
LeafOf(tree) ==
    IF tree.t = "dict" THEN LeafOf(tree.v[1].v)
    ELSE IF tree.t = "list" THEN LeafOf(tree.v[1])
    ELSE tree

RECURSIVE PathOf(_, _)
PathOf(tree, key) ==
    IF tree.t = "dict" THEN PathOf(tree.v[1].v, JoinPath(key, tree.v[1].k))
    ELSE IF tree.t = "list" THEN PathOf(tree.v[1], key)
    ELSE key

\* the leaf is in a list that is an element of a list
RECURSIVE InNestedList(_)
InNestedList(tree) ==
    IF tree.t = "dict" THEN InNestedList(tree.v[1].v)
    ELSE IF tree.t = "list" THEN tree.v[1].t = "list" \/ InNestedList(tree.v[1])
    ELSE FALSE

\* the tree with another leaf
RECURSIVE WithLeaf(_, _)
WithLeaf(tree, leaf) ==
    IF tree.t = "dict" THEN D(<<E(tree.v[1].k, WithLeaf(tree.v[1].v, leaf))>>)
    ELSE IF tree.t = "list" THEN L(<<WithLeaf(tree.v[1], leaf)>>)
    ELSE leaf

\* the (path, value) pairs cal_f1_all matches for the document (line 83)
PairsToMatch(normalized_docs) ==
    flatten(normalize_dict(DictGet(normalized_docs, DocNames[1])))

\* the pair of the text-normalized form of the leaf of the document
NormalizedPair(docs) ==
    <<PathOf(DictGet(docs, DocNames[1]), <<>>),
      S(normalize_func(PyStr(LeafOf(DictGet(docs, DocNames[1])))))>>

\* C15: every scalar leaf of the prediction and of the ground truth, a string
\* or a number, under a key, in a list or in a nested list, reaches matching
\* as its text-normalized form
C15_EveryLeafNormalized ==
    (epc \in {"normalized", "returned"}) =>
        /\ PairsToMatch(ev_norm_preds) = <<NormalizedPair(ev_preds)>>
        /\ PairsToMatch(ev_norm_gts) = <<NormalizedPair(ev_gts)>>

\* C16: a number at a field path in the one tree and the string str(number)
\* at the same place in the other give the same (path, value) pair and a true
\* positive, for zero, positive and negative numbers
C16_NumberMatchesItsString ==
    (/\ epc = "returned"
     /\ ~InNestedList(DictGet(ev_preds, DocNames[1]))
     /\ \E tree \in {DictGet(ev_preds, DocNames[1]), DictGet(ev_gts, DocNames[1])} :
           /\ LeafOf(tree).t = "int"
           /\ {DictGet(ev_preds, DocNames[1]), DictGet(ev_gts, DocNames[1])}
                = {tree, WithLeaf(tree, S(PyStr(LeafOf(tree))))}) =>
        /\ PairsToMatch(ev_norm_preds) = PairsToMatch(ev_norm_gts)
        /\ Len(PairsToMatch(ev_norm_preds)) = 1
        /\ ev_result.f1_error_info = <<>>
        /\ ev_result.f1_score = [num |-> 2 * Micro, den |-> 2 * Micro + 2]

----------------------------------------------------------------------------
(* Lists of maps and scalars, over SpecTree *)

\* a list with a map and with an element that is no map
IsMixedList(value) ==
    /\ value.t = "list"
    /\ \E i \in 1..Len(value.v) : value.v[i].t = "dict"
    /\ \E i \in 1..Len(value.v) : value.v[i].t # "dict"

\* the trimmed strings of the strings and numbers of a list, the empty ones left out
TrimmedScalars(items) ==
    LET kept == SelectSeq(items, LAMBDA item : /\ item.t \in {"str", "int"}
                                               /\ strip(PyStr(item)) # <<>>)
    IN  [i \in 1..Len(kept) |-> S(strip(PyStr(kept[i])))]

\* path is key or goes through key
Under(path, key) ==
    path = key \/ (Len(path) > Len(key) /\ SubSeq(path, 1, Len(key) + 1) = key \o <<".">>)

\* C17: a list that mixes maps and scalars is normalized to the trimmed
\* strings of its strings and numbers, the empty ones dropped; its maps are
\* dropped, so their fields are not among the flattened pairs
C17_MixedListDropsMaps ==
    (tpc \in {"normalized", "flattened"}) =>
        /\ IsMixedList(data) =>
              /\ canon = L(TrimmedScalars(data.v))
              /\ tpc = "flattened" =>
                    flat = [i \in 1..Len(TrimmedScalars(data.v)) |->
                               <<<<>>, TrimmedScalars(data.v)[i]>>]
        /\ data.t = "dict" =>
              \A i \in 1..Len(data.v) :
                  IsMixedList(data.v[i].v) =>
                      LET key == data.v[i].k
                          items == TrimmedScalars(data.v[i].v.v)
                      IN  /\ IF items = <<>> THEN ~HasKey(canon, key)
                             ELSE HasKey(canon, key) /\ DictGet(canon, key) = L(items)
                          /\ tpc = "flattened" =>
                                SelectSeq(flat, LAMBDA pair : Under(pair[1], key))
                                  = [n \in 1..Len(items) |-> <<key, items[n]>>]

\* a list of a map with a field and of a string: the string is the one pair
C17_Witness ==
    /\ tpc = "flattened"
    /\ IsMixedList(data)
    /\ \E i \in 1..Len(data.v) :
          data.v[i].t = "dict" /\ flatten(normalize_dict(data.v[i])) # <<>>
    /\ Len(flat) = 1
    /\ flat[1][1] = <<>>

----------------------------------------------------------------------------
(* Lists of maps, over SpecTree *)

\* the list of maps of scalars that data is, or that its one key holds
HasListOfMaps ==
    LET holder == IF data.t = "dict" /\ Len(data.v) = 1 THEN data.v[1].v ELSE data
    IN  /\ holder.t = "list"
        /\ holder.v # <<>>
        /\ \A i \in 1..Len(holder.v) :
              /\ holder.v[i].t = "dict"
              /\ \A n \in 1..Len(holder.v[i].v) :
                    holder.v[i].v[n].v.t \in {"str", "int", "none"}

ListOfMaps == IF data.t = "dict" THEN data.v[1].v ELSE data

ParentPath == IF data.t = "dict" THEN data.v[1].k ELSE <<>>

\* data with another list in the place of its list of maps
WithList(list) == IF data.t = "dict" THEN D(<<E(data.v[1].k, list)>>) ELSE list

\* the entries of all the maps of a list
RECURSIVE EntriesOfMaps(_)
EntriesOfMaps(maps) ==
    IF maps = <<>> THEN <<>> ELSE Head(maps).v \o EntriesOfMaps(Tail(maps))

\* the entries that place sends to the element n of the list
RECURSIVE EntriesAt(_, _, _)
EntriesAt(entries, place, n) ==
    IF entries = <<>> THEN <<>>
    ELSE (IF Head(place) = n THEN <<Head(entries)>> ELSE <<>>)
         \o EntriesAt(Tail(entries), Tail(place), n)

DistinctKeys(entries) ==
    \A i, j \in 1..Len(entries) : entries[i].k = entries[j].k => i = j

\* the lists of two maps over which the (key, value) leaves of the maps of
\* list can be distributed
Redistributed(list) ==
    LET entries == EntriesOfMaps(list.v)
    IN  {L(<<D(EntriesAt(entries, place, 1)), D(EntriesAt(entries, place, 2))>>) :
            place \in {p \in [1..Len(entries) -> {1, 2}] :
                          /\ DistinctKeys(EntriesAt(entries, p, 1))
                          /\ DistinctKeys(EntriesAt(entries, p, 2))}}

\* C18: a list adds no segment to the field path: the leaves of all the maps
\* of a list carry the path parent.key; and lists of maps that hold the same
\* (key, value) leaves, distributed differently over their elements, flatten
\* to the same multiset and match each other with true positives only
C18_FanOut ==
    (tpc = "flattened" /\ HasListOfMaps) =>
        /\ \A i \in 1..Len(flat) :
              \E n \in 1..Len(EntriesOfMaps(ListOfMaps.v)) :
                  flat[i][1] = JoinPath(ParentPath, EntriesOfMaps(ListOfMaps.v)[n].k)
        /\ \A other \in Redistributed(ListOfMaps) :
              /\ BagOf(flatten(normalize_dict(WithList(other)))) = BagOf(flat)
              /\ Counts(WithList(other), data) = <<Len(flat), 0, 0>>
              /\ Counts(data, WithList(other)) = <<Len(flat), 0, 0>>

\* a list of one map of two fields under a key or at the root, whose leaves
\* can also be held by two maps of one field each
C18_Witness ==
    /\ tpc = "flattened"
    /\ HasListOfMaps
    /\ Len(flat) = 2
    /\ flat[1][2] # flat[2][2]
    /\ \E other \in Redistributed(ListOfMaps) :
          /\ other # ListOfMaps
          /\ other.v[1].v # <<>>
          /\ other.v[2].v # <<>>

----------------------------------------------------------------------------
(* The error records of cal_f1_all, over SpecScore *)

\* the number of pairs of the prediction of the i-th document that have a
\* pair of the ground truth of their own: the n-th occurrence of a pair has
\* one if the ground truth holds the pair n times or more
Matched(i) ==
    LET pred == PredFields(i)
        gt == GtFields(i)
    IN  Cardinality({j \in 1..Len(pred) :
                        CountIn(SubSeq(pred, 1, j), pred[j]) <= CountIn(gt, pred[j])})

\* the number of false positives and false negatives of the i-th document
Errors(i) == Len(PredFields(i)) + Len(GtFields(i)) - 2 * Matched(i)

\* the error records of the document named file_name
RecordsOf(file_name) == SelectSeq(cal.error_info, LAMBDA record : record.k = file_name)

\* C19: the error map has a record for a document if and only if the document
\* is a key of the ground truth with at least one false positive or false
\* negative; error_num of the record is |fp| + |fn|; a document with true
\* positives only has no record
C19_ErrorRecordIffErrors ==
    /\ \A i \in 1..doc_i :
          LET errors == Errors(i)
              records == RecordsOf(answers.v[i].k)
          IN  /\ errors > 0 => (Len(records) = 1 /\ records[1].error_num = errors)
              /\ errors = 0 => records = <<>>
    /\ \A r \in 1..Len(cal.error_info) :
          /\ \E i \in 1..doc_i : answers.v[i].k = cal.error_info[r].k
          /\ cal.error_info[r].error_num
               = Len(cal.error_info[r].fp) + Len(cal.error_info[r].fn)

\* two documents scored: the first matches entirely and has no record, the
\* second has one false negative and a record
C19_Witness ==
    /\ cpc = "returned"
    /\ doc_i = 2
    /\ GtFields(1) # <<>>
    /\ Errors(1) = 0
    /\ Len(cal.error_info) = 1
    /\ cal.error_info[1].k = answers.v[2].k
    /\ Len(cal.error_info[1].fp) = 0
    /\ Len(cal.error_info[1].fn) = 1
    /\ cal.error_info[1].error_num = 1

\* the field paths of the false positives and false negatives of a record
ErrorPaths(record) ==
    [i \in 1..Len(record.fp) + Len(record.fn) |-> (record.fp \o record.fn)[i][1]]

\* the sum of the counts of a histogram
RECURSIVE SumCounts(_)
SumCounts(entries) ==
    IF entries = <<>> THEN 0 ELSE Head(entries).n + SumCounts(Tail(entries))

\* the histogram has the count n under key, no entry under key if n is 0
CountUnder(entries, key, n) ==
    IF n = 0 THEN \A i \in 1..Len(entries) : entries[i].k # key
    ELSE Cardinality({i \in 1..Len(entries) : entries[i].k = key /\ entries[i].n = n}) = 1

----------------------------------------------------------------------------
(* The ground-truth key of a record, over Spec *)

\* the lines with the url "images/k1" turned into "k1"
WithoutPrefix(the_lines) ==
    [i \in 1..Len(the_lines) |->
        IF the_lines[i].url = S(ImagesPrefix \o Image1)
        THEN [the_lines[i] EXCEPT !.url = S(Image1)]
        ELSE the_lines[i]]

\* C21: the ground-truth key of a record is its url without a leading
\* "images/", the url itself when it has none: a record with the url
\* "images/K" is stored and scored as the same record with the url "K"
C21_ImagesPrefixStripped ==
    /\ (mpc # "load" \/ line_i = Len(lines)) =>
          /\ all_predictions = LoadPredictions(WithoutPrefix(lines))
          /\ \A i \in 1..Len(lines) :
                IsUsableLine(lines[i]) =>
                    HasKey(DictGet(all_predictions, lines[i].dataset.v),
                           WithoutPrefix(lines)[i].url.v)
    /\ (mpc \in {"done", "aborted"}) =>
          report = MainReport(WithoutPrefix(lines), labels, arg_dataset)

\* a file of one record, of url "images/k1", scored as a true positive
\* against the ground truth of k1
C21_Witness ==
    /\ mpc = "done"
    /\ Len(lines) = 1
    /\ lines[1].url = S(ImagesPrefix \o Image1)
    /\ HasKey(report[1], DatasetA)
    /\ DictGet(report[1], DatasetA).f1_score.num > 0

----------------------------------------------------------------------------
(* request_openai.main_async on at most MaxSamples samples, with a         *)
(* semaphore of at most MaxConcurrency and MAX_RETRIES at most MaxRetries. *)
(* A task of process_one runs without a break from one await to the next: *)
(* from the semaphore to its first call of the API or to its return, and   *)
(* from the end of a call to the next call or to its return. What the API  *)
(* answers, and whether the images of a sample resolve, is the choice of   *)
(* the environment. calls counts the calls of call_api_once of a task and  *)
(* answered tells that one of them returned. The samples are rows that    *)
(* load_qa_jsonl accepted, and the output file can be written.            *)

\* what a call of the API returns as the content of the message: text that
\* post_process_to_json parses, text that it does not parse, or None
Contents == {"json", "text", "none"}

\* the record of a failed sample (lines 171 and 194)
ErrorRecord(url, error, attempts) ==
    [dataset |-> "A", url |-> url, error |-> error, retry_attempts |-> attempts]

\* post_process_to_json (lines 119-139): <<parsed, perr>>
post_process_to_json(raw_text) ==
    IF raw_text = "json" THEN <<"parsed", "none">> ELSE <<"none", "perr">>

\* what process_one returns once a call has returned raw_text (lines 170-191)
AnsweredRecord(url, raw_text, attempts) ==
    IF raw_text = "none" THEN ErrorRecord(url, "API failed", attempts)
    ELSE [dataset |-> "A", url |-> url,
          model_result |-> IF post_process_to_json(raw_text)[1] # "none"
                           THEN [parsed |-> post_process_to_json(raw_text)[1]]
                           ELSE ("_raw_text" :> raw_text)
                                @@ ("_parse_error" :> post_process_to_json(raw_text)[2]),
          raw_response |-> raw_text,
          retry_attempts |-> attempts,
          images |-> "images"]

InitProducer ==
    /\ \E n \in 0..MaxSamples : samples = [i \in 1..n |-> i]
    /\ concurrency \in 0..MaxConcurrency
    /\ MAX_RETRIES \in 0..MaxRetries
    /\ sem = concurrency
    /\ tasks = [i \in 1..Len(samples) |->
                  [pc |-> "created", attempt |-> 0, calls |-> 0, answered |-> FALSE,
                   res |-> "none"]]
    /\ completed = <<>>
    /\ fh = <<>>
    /\ ok = 0
    /\ fail = 0
    /\ wpc = "running"
    /\ TreeOff
    /\ CalOff
    /\ MainOff
    /\ TextOff
    /\ EvalOff

\* a loop that runs once more than range(stop)
InRangeInclusive(attempt, stop) == attempt <= stop

\* for attempt in range(MAX_RETRIES) (line 157): the loop runs for attempt
InRange(attempt, stop) == attempt < stop

\* a semaphore that lets every task in
NeverLocked(value) == TRUE

\* async with sem (line 142): the task goes on if the semaphore is not locked
NotLocked(value) == value > 0

\* a task gets the semaphore and runs to its first call of the API (lines
\* 142-159); it returns at once if its images do not resolve (line 194) or
\* if MAX_RETRIES allows no call (line 171)
Acquire(i) ==
    /\ tasks[i].pc = "created"
    /\ NotLocked(sem)
    /\ \E resolves \in BOOLEAN :
          IF ~resolves
          THEN /\ tasks' = [tasks EXCEPT ![i] = [@ EXCEPT !.pc = "done",
                                  !.res = ErrorRecord(samples[i], "exception", 0)]]
               /\ completed' = Append(completed, i)
               /\ sem' = sem
          ELSE IF ~InRange(0, MAX_RETRIES)
          THEN /\ tasks' = [tasks EXCEPT ![i] = [@ EXCEPT !.pc = "done",
                                  !.res = ErrorRecord(samples[i], "API failed", 0)]]
               /\ completed' = Append(completed, i)
               /\ sem' = sem
          ELSE /\ tasks' = [tasks EXCEPT ![i] = [@ EXCEPT !.pc = "calling", !.calls = 1]]
               /\ completed' = completed
               /\ sem' = sem - 1
    /\ UNCHANGED <<samples, concurrency, MAX_RETRIES, fh, ok, fail, wpc,
                   treeVars, calVars, mainVars, textVars, evalVars>>

\* the call of the API returns: the loop breaks and the task returns its
\* record (lines 159-161 and 170-191)
CallReturns(i) ==
    /\ tasks[i].pc = "calling"
    /\ \E raw_text \in Contents :
          tasks' = [tasks EXCEPT ![i] =
                      [@ EXCEPT !.pc = "done", !.answered = TRUE,
                                !.res = AnsweredRecord(samples[i], raw_text,
                                                       tasks[i].attempt + 1)]]
    /\ completed' = Append(completed, i)
    /\ sem' = sem + 1
    /\ UNCHANGED <<samples, concurrency, MAX_RETRIES, fh, ok, fail, wpc,
                   treeVars, calVars, mainVars, textVars, evalVars>>

\* the call of the API raises: the loop goes on to the next call, or is over
\* and the task returns the record of a failure (lines 162-171)
CallRaises(i) ==
    /\ tasks[i].pc = "calling"
    /\ IF InRange(tasks[i].attempt + 1, MAX_RETRIES)
       THEN /\ tasks' = [tasks EXCEPT ![i] = [@ EXCEPT !.attempt = @ + 1, !.calls = @ + 1]]
            /\ UNCHANGED <<completed, sem>>
       ELSE /\ tasks' = [tasks EXCEPT ![i] =
                           [@ EXCEPT !.pc = "done",
                                     !.res = ErrorRecord(samples[i], "API failed",
                                                         tasks[i].attempt + 1)]]
            /\ completed' = Append(completed, i)
            /\ sem' = sem + 1
    /\ UNCHANGED <<samples, concurrency, MAX_RETRIES, fh, ok, fail, wpc,
                   treeVars, calVars, mainVars, textVars, evalVars>>

\* a file that holds the last line written only
WriteOver(file, line) == <<line>>

\* fh.write(json.dumps(res) + "\n") and fh.flush() (lines 234-235)
WriteLine(file, line) == Append(file, line)

\* the loop over as_completed takes the next task that is done and writes its
\* record (lines 232-239)
WriteRecord ==
    /\ wpc = "running"
    /\ Len(fh) < Len(completed)
    /\ LET res == tasks[completed[Len(fh) + 1]].res
       IN  /\ fh' = WriteLine(fh, res)
           /\ IF "error" \in DOMAIN res /\ res.error # ""
              THEN fail' = fail + 1 /\ ok' = ok
              ELSE ok' = ok + 1 /\ fail' = fail
    /\ UNCHANGED <<samples, concurrency, MAX_RETRIES, sem, tasks, completed, wpc,
                   treeVars, calVars, mainVars, textVars, evalVars>>

\* every task was waited for: the file is closed (lines 231 and 241-242)
CloseOutput ==
    /\ wpc = "running"
    /\ Len(fh) = Len(samples)
    /\ wpc' = "closed"
    /\ UNCHANGED <<samples, concurrency, MAX_RETRIES, sem, tasks, completed, fh, ok, fail,
                   treeVars, calVars, mainVars, textVars, evalVars>>

NextProducer ==
    \/ \E i \in 1..Len(samples) : Acquire(i) \/ CallReturns(i) \/ CallRaises(i)
    \/ WriteRecord
    \/ CloseOutput

SpecProducer == InitProducer /\ [][NextProducer]_vars

----------------------------------------------------------------------------
(* Properties of request_openai.main_async, over SpecProducer *)

\* the samples whose task is inside async with sem
Inside == {i \in 1..Len(samples) : tasks[i].pc = "calling"}

\* C22: requests go out under a bounded concurrency: with a semaphore of N, at
\* most N samples are inside the section of process_one that the semaphore
\* guards, however many tasks were created
C22_BoundedConcurrency ==
    /\ Cardinality(Inside) <= concurrency
    /\ sem = concurrency - Cardinality(Inside)

\* two tasks and a semaphore of 1: one task is at a call of the API and the
\* other waits for the semaphore
C22_Witness ==
    /\ Len(samples) = 2
    /\ concurrency = 1
    /\ Cardinality(Inside) = 1
    /\ \E i \in 1..2 : tasks[i].pc = "created"

\* the task of sample i has returned
Returned(i) == tasks[i].pc = "done"

\* C23: every failed request is retried up to a fixed bound: for every sample
\* at most MAX_RETRIES calls of the API are made, no call is made after the
\* first one that succeeds, the retry_attempts of the record the task returns
\* is the number of calls made, and a sample whose calls all fail gives a
\* record with an error and no model_result
C23_BoundedRetries ==
    /\ [](\A i \in 1..Len(samples) :
            /\ tasks[i].calls <= MAX_RETRIES
            /\ Returned(i) => tasks[i].res.retry_attempts = tasks[i].calls
            /\ Returned(i) /\ ~tasks[i].answered
                  => /\ "error" \in DOMAIN tasks[i].res
                     /\ "model_result" \notin DOMAIN tasks[i].res)
    /\ [][\A i \in 1..Len(samples) :
            tasks[i].answered => tasks'[i].calls = tasks[i].calls]_vars

\* one sample got its answer at the second call and another one failed at
\* every one of its MAX_RETRIES calls
C23_Witness ==
    /\ MAX_RETRIES = 2
    /\ \E i \in 1..Len(samples) :
          /\ Returned(i)
          /\ tasks[i].answered
          /\ tasks[i].calls = 2
          /\ "model_result" \in DOMAIN tasks[i].res
          /\ tasks[i].res.retry_attempts = 2
    /\ \E i \in 1..Len(samples) :
          /\ Returned(i)
          /\ ~tasks[i].answered
          /\ tasks[i].calls = 2
          /\ tasks[i].res.error = "API failed"

\* the records of the first n tasks that were done, in the order they were
\* done in
RecordsDone(n) == [k \in 1..n |-> tasks[completed[k]].res]

\* C24: completed records are appended one at a time: under every
\* interleaving of the tasks the output holds the records of the tasks in the
\* order in which they completed, written by the one loop of main_async, a
\* write adds one whole line and leaves the lines before it as they were, and
\* when the run ends the output holds exactly one line for each sample
C24_OneLinePerSample ==
    /\ [](/\ Len(fh) <= Len(completed)
          /\ fh = RecordsDone(Len(fh))
          /\ wpc = "closed" =>
                /\ Len(fh) = Len(samples)
                /\ \A i \in 1..Len(samples) :
                      Cardinality({k \in 1..Len(fh) : fh[k].url = samples[i]}) = 1)
    /\ [][\/ fh' = fh
          \/ /\ Len(fh') = Len(fh) + 1
             /\ SubSeq(fh', 1, Len(fh)) = fh
             /\ fh'[Len(fh')] = tasks[completed[Len(fh')]].res]_vars

\* the run is over, the second sample was done before the first, and the
\* output holds the record of the second sample, a success, before that of
\* the first one, a failure
C24_Witness ==
    /\ wpc = "closed"
    /\ Len(samples) = 2
    /\ completed = <<2, 1>>
    /\ Len(fh) = 2
    /\ fh[1].url = samples[2]
    /\ "model_result" \in DOMAIN fh[1]
    /\ fh[2].url = samples[1]
    /\ "error" \in DOMAIN fh[2]
    /\ ok = 1
    /\ fail = 1

----------------------------------------------------------------------------
(* Properties of normalize_dict and flatten on maps, over SpecTree *)

\* the trees got from tree by inserting the entries of the maps inside it in
\* another order
RECURSIVE EntryOrders(_)
EntryOrders(tree) ==
    IF tree.t = "dict" THEN
        {D([i \in 1..Len(tree.v) |-> E(tree.v[p[i]].k, f[p[i]])]) :
            f \in SeqProduct([i \in 1..Len(tree.v) |-> EntryOrders(tree.v[i].v)]),
            p \in Permutations(1..Len(tree.v))}
    ELSE IF tree.t = "list" THEN
        {L(f) : f \in SeqProduct([i \in 1..Len(tree.v) |-> EntryOrders(tree.v[i])])}
    ELSE {tree}

\* the keys of every map inside tree ascend by (len(key), key)
RECURSIVE KeysAscend(_)
KeysAscend(tree) ==
    IF tree.t = "dict" THEN
        /\ \A i \in 1..(Len(tree.v) - 1) : KeyLess(tree.v[i].k, tree.v[i + 1].k)
        /\ \A i \in 1..Len(tree.v) : KeysAscend(tree.v[i].v)
    ELSE IF tree.t = "list" THEN \A i \in 1..Len(tree.v) : KeysAscend(tree.v[i])
    ELSE TRUE

\* C25: the order in which the keys of a map were inserted is irrelevant: two
\* trees that hold the same entries inserted in different orders normalize to
\* the same canonical form, the keys of every map of the canonical form ascend
\* by (len(key), key) at every level, and flatten gives the same sequence of
\* (path, value) pairs for both
C25_InsertionOrderIrrelevant ==
    /\ tpc \in {"normalized", "flattened"} =>
          /\ KeysAscend(canon)
          /\ \A other \in EntryOrders(data) : normalize_dict(other) = canon
    /\ tpc = "flattened" =>
          \A other \in EntryOrders(data) : flatten(normalize_dict(other)) = flat

\* a map whose keys were inserted as "aa" and then "b": its canonical form has
\* "b" before "aa" and flatten gives the pair of "b" first
C25_Witness ==
    /\ tpc = "flattened"
    /\ data.t = "dict"
    /\ Keys(data) = <<(<<"a", "a">>), (<<"b">>)>>
    /\ Keys(canon) = <<(<<"b">>), (<<"a", "a">>)>>
    /\ Len(flat) = 2
    /\ flat[1][1] = <<"b">>
    /\ flat[2][1] = <<"a", "a">>
    /\ \E other \in EntryOrders(data) : other # data

----------------------------------------------------------------------------
(* The counters of cal_f1_all, over SpecScore *)

\* the lists tp, fp and fn that the loop of cal_f1_all builds for the i-th
\* document of answers
SampleOf(i) ==
    ScoreDocOp(CalStart, preds, answers.v[i].k, answers.v[i].v).sample_error_info

\* the lists of the documents 1..n
RECURSIVE SamplesUpTo(_)
SamplesUpTo(n) == IF n = 0 THEN <<>> ELSE Append(SamplesUpTo(n - 1), SampleOf(n))

\* the sum of count[i] over i in 1..n
RECURSIVE SumOver(_, _)
SumOver(count, n) == IF n = 0 THEN 0 ELSE SumOver(count, n - 1) + count[n]

\* C26: counting conserves the fields: for every document of the ground
\* truth, P and G being its flattened normalized prediction and ground truth,
\* |tp| + |fp| = |P| and |tp| + |fn| = |G|, and the global counters are the
\* sums over the documents: total_tp of |tp|, total_fn_or_fp of |fp| + |fn|
C26_CountsConserved ==
    LET samples_done == SamplesUpTo(doc_i)
    IN  /\ \A i \in 1..doc_i :
              /\ Len(samples_done[i].tp) + Len(samples_done[i].fp) = Len(PredFields(i))
              /\ Len(samples_done[i].tp) + Len(samples_done[i].fn) = Len(GtFields(i))
        /\ doc_i > 0 /\ cpc = "loop" => cal.sample_error_info = samples_done[doc_i]
        /\ cal.total_tp = SumOver([i \in 1..doc_i |-> Len(samples_done[i].tp)], doc_i)
        /\ cal.total_fn_or_fp
             = SumOver([i \in 1..doc_i |->
                           Len(samples_done[i].fp) + Len(samples_done[i].fn)], doc_i)

\* two documents scored, the first with a true positive, the second with a
\* false positive: total_tp is 1 and total_fn_or_fp is 1
C26_Witness ==
    /\ cpc = "returned"
    /\ doc_i = 2
    /\ Len(SampleOf(1).tp) = 1
    /\ Len(SampleOf(1).fn) = 0
    /\ Len(SampleOf(1).fp) = 0
    /\ Len(SampleOf(2).fp) = 1
    /\ Len(SampleOf(2).tp) = 0
    /\ cal.total_tp = 1
    /\ cal.total_fn_or_fp = 1

\* the sum of the counter of every entry of metric_info
RECURSIVE SumMetric(_, _)
SumMetric(metric_info, counter) ==
    IF metric_info = <<>> THEN 0
    ELSE Head(metric_info)[counter] + SumMetric(Tail(metric_info), counter)

\* C27: the per-field counters partition the global ones: the per-field
\* total_tp sum to the global total_tp and the per-field total_fn_or_fp to
\* the global total_fn_or_fp, and every field path of the flattened
\* prediction or ground truth of a document of the ground truth has one
\* entry, keyed by the path alone
C27_FieldsPartitionTotals ==
    /\ SumMetric(cal.metric_info, "total_tp") = cal.total_tp
    /\ SumMetric(cal.metric_info, "total_fn_or_fp") = cal.total_fn_or_fp
    /\ \A i \in 1..doc_i :
          \A path \in PathsOf(PredFields(i)) \cup PathsOf(GtFields(i)) :
             Cardinality({j \in 1..Len(cal.metric_info) : cal.metric_info[j].k = path}) = 1
    /\ \A j \in 1..Len(cal.metric_info) :
          \E i \in 1..doc_i :
             cal.metric_info[j].k \in PathsOf(PredFields(i)) \cup PathsOf(GtFields(i))

\* two paths, one with a true positive and the other with a false negative:
\* two entries that sum to the global counters
C27_Witness ==
    /\ cpc = "returned"
    /\ Len(cal.metric_info) = 2
    /\ cal.total_tp = 1
    /\ cal.total_fn_or_fp = 1
    /\ \E j \in 1..2 :
          /\ cal.metric_info[j].total_tp = 1
          /\ cal.metric_info[j].total_fn_or_fp = 0
          /\ cal.metric_info[3 - j].total_tp = 0
          /\ cal.metric_info[3 - j].total_fn_or_fp = 1
          /\ \E i \in 1..doc_i :
                cal.metric_info[3 - j].k \in PathsOf(GtFields(i)) \ PathsOf(PredFields(i))

----------------------------------------------------------------------------
(* Several records for one document, over SpecLoad *)

\* the lines read so far that are usable and stored under name, by number
UsableFor(name) ==
    {i \in 1..line_i : /\ IsUsableLine(lines[i])
                       /\ <<StoredDataset(lines[i]), StoredImage(lines[i])>> = name}

\* the greatest number of a set of numbers that is not empty
Last(numbers) == CHOOSE i \in numbers : \A j \in numbers : j <= i

\* C28: when the file holds several records for one (dataset, document key),
\* load_predictions keeps the model_result of the last usable one in file
\* order; a later record that is unusable (no model_result, a _parse_error,
\* a malformed line) neither removes nor replaces the prediction of an
\* earlier usable one
C28_LastUsableWins ==
    \A name \in EntryNames :
        LET usable == UsableFor(name)
        IN  EntryOf(all_predictions, name[1], name[2])
              = IF usable = {} THEN <<>> ELSE <<lines[Last(usable)].model_result>>

\* two records for the document k1 of dataset A: the first is usable, the
\* second, under the url images/k1, has a _parse_error, and the prediction of
\* the first is what load_predictions returns
C28_Witness ==
    /\ mpc = "loaded"
    /\ Len(lines) = 2
    /\ lines[1] = Line("json", S(DatasetA), S(Image1), ResultX)
    /\ lines[2] = Line("json", S(DatasetA), S(ImagesPrefix \o Image1), ResultParseError)
    /\ EntryOf(all_predictions, DatasetA, Image1) = <<ResultX>>

----------------------------------------------------------------------------
(* A map against the one-element list that holds it, over SpecTree *)

\* the entries of data, a map, whose value is a map that is not empty
MapChildren ==
    IF data.t = "dict"
    THEN {i \in 1..Len(data.v) : data.v[i].v.t = "dict" /\ data.v[i].v.v # <<>>}
    ELSE {}

\* data with the map m of its i-th entry replaced by the list [m]
InList(i) == D([j \in 1..Len(data.v) |->
                  IF j = i THEN E(data.v[j].k, L(<<data.v[j].v>>)) ELSE data.v[j]])

\* every value of every map inside tree is a list
RECURSIVE MapValuesAreLists(_)
MapValuesAreLists(tree) ==
    IF tree.t = "dict" THEN
        \A i \in 1..Len(tree.v) : tree.v[i].v.t = "list" /\ MapValuesAreLists(tree.v[i].v)
    ELSE IF tree.t = "list" THEN \A i \in 1..Len(tree.v) : MapValuesAreLists(tree.v[i])
    ELSE TRUE

\* {"k": m} and {"k": [m]} normalize and flatten to the same and match each
\* other with true positives only
SameAsInList(i) ==
    LET twin == InList(i)
    IN  /\ normalize_dict(twin) = canon
        /\ flatten(normalize_dict(twin)) = flat
        /\ Counts(data, twin) = <<Len(flat), 0, 0>>
        /\ Counts(twin, data) = <<Len(flat), 0, 0>>

\* C29, as stated: a child of a map that is a map m, not empty, and a child
\* that is the list [m] normalize to the same canonical value, a one-element
\* list that holds normalize_dict(m), so that {"k": m} and {"k": [m]} flatten
\* to the same pairs and match each other with no FP and no FN; every value
\* of a map of a canonical form is a list
C29_SingletonWrapped ==
    tpc = "flattened" =>
        /\ MapValuesAreLists(canon)
        /\ \A i \in MapChildren :
              /\ EntryOf(D(<<E(<<>>, canon)>>), <<>>, data.v[i].k)
                   = <<L(<<normalize_dict(data.v[i].v)>>)>>
              /\ SameAsInList(i)

\* C29, amended: the canonical value is the one-element list that holds
\* normalize_dict(m) when normalize_dict(m) is not empty; when it is empty
\* (every value of m normalizes to empty) the key is dropped, for m as for
\* [m]; in both cases {"k": m} and {"k": [m]} flatten to the same pairs and
\* match each other with no FP and no FN; every value of a map of a canonical
\* form is a list
C29_SingletonWrappedIfKept ==
    tpc = "flattened" =>
        /\ MapValuesAreLists(canon)
        /\ \A i \in MapChildren :
              LET m == normalize_dict(data.v[i].v)
              IN  /\ EntryOf(D(<<E(<<>>, canon)>>), <<>>, data.v[i].k)
                       = IF Truthy(m) THEN <<L(<<m>>)>> ELSE <<>>
                  /\ ~HasKey(normalize_dict(InList(i)), data.v[i].k) <=> ~Truthy(m)
                  /\ SameAsInList(i)

\* {"b": {"b": "x"}}: the map under "b" is kept in a one-element list and its
\* leaf is flattened to one pair
C29_Witness ==
    /\ tpc = "flattened"
    /\ data = D(<<E(<<"b">>, D(<<E(<<"b">>, S(<<"x">>))>>))>>)
    /\ MapChildren = {1}
    /\ canon = D(<<E(<<"b">>, L(<<D(<<E(<<"b">>, L(<<S(<<"x">>)>>))>>)>>))>>)
    /\ normalize_dict(InList(1)) = canon
    /\ flat = <<(<<(<<"b", ".", "b">>), S(<<"x">>)>>)>>

----------------------------------------------------------------------------
(* Field paths of keys that hold a dot or are empty, over SpecTree *)

\* the one leaf of a tree of DottedTrees
RECURSIVE OnlyLeaf(_)
OnlyLeaf(tree) == IF tree.t = "dict" THEN OnlyLeaf(tree.v[1].v) ELSE tree

\* C30: field paths join the keys with dots and escape nothing, and an empty
\* parent path is dropped, so flatten is not injective on structure: a leaf at
\* the nested keys a then b, a leaf at the one top-level key "a.b" and a leaf
\* under the empty key followed by "a.b" all get the field path "a.b", and
\* are counted as true positives against one another when their values are
\* equal
C30_PathsCollide ==
    tpc = "flattened" /\ data \in DottedTrees =>
        /\ flat = <<(<<(<<"a", ".", "b">>), S(strip(PyStr(OnlyLeaf(data))))>>)>>
        /\ \A other \in DottedTrees :
              OnlyLeaf(other) = OnlyLeaf(data) =>
                 /\ flatten(normalize_dict(other)) = flat
                 /\ Counts(data, other) = <<1, 0, 0>>
                 /\ Counts(other, data) = <<1, 0, 0>>

\* the leaf "x" under the empty key and then "a.b": its path is "a.b", and
\* two other trees, of different structure, flatten to the same pair
C30_Witness ==
    /\ tpc = "flattened"
    /\ data = D(<<E(<<>>, D(<<E(<<"a", ".", "b">>, S(<<"x">>))>>))>>)
    /\ flat = <<(<<(<<"a", ".", "b">>), S(<<"x">>)>>)>>
    /\ Cardinality({other \in DottedTrees \ {data} :
                       flatten(normalize_dict(other)) = flat}) = 2

============================================================================
